---- MODULE Spec2Model ----
(***************************************************************************)
(* A model of the TAURO extraction pipeline: the sparse cell grid of a     *)
(* workbook (create_cellmap.py), the timesheet event extraction            *)
(* (extract_timesheet_events.py), the report header and the operational    *)
(* notes (extract_report_header.py, extract_operational_notes.py), the     *)
(* keyword classifier (basic_analyzer.py) and the order in which           *)
(* upload_file (app.py) runs them.                                         *)
(*                                                                         *)
(* Python values are tagged records: a string is [t |-> "str", s |-> ..],  *)
(* a number [t |-> "num", n |-> ..], None is [t |-> "none"].  A dict is a  *)
(* sequence of its items in insertion order, which is the order every      *)
(* "for k, v in d.items()" of the source visits them in.                   *)
(***************************************************************************)
EXTENDS Integers, Sequences, FiniteSets, TLC

VARIABLES
    grid,            \* the cellmap: <<[name, cells]>>, cells = <<[ref, val]>>
    pc,              \* position of upload_file / of the pure-function drivers
    header_data,     \* result of extract_report_header
    all_events,      \* extract_timesheet_events_from_data: all_events
    sheet_idx,       \* index of the sheet the events loop is at
    header_sections, \* find_timesheet_headers of that sheet
    sec_idx,         \* enumerate(header_sections): index of the section
    row,             \* extract_events_from_section: row
    events,          \* extract_events_from_section: events
    notes_data,      \* result of extract_operational_notes
    categories,      \* BasicTimeSheetAnalyzer._categorize_events result
    errors,          \* stages of upload_file whose try block raised
    arg,             \* input of a pure function under test
    ret,             \* its result
    uploads,         \* the files of UPLOAD_FOLDER, by name
    output,          \* the files of OUTPUT_FOLDER, by name
    requests,        \* the upload requests being handled, each with its locals
    conversation_history,  \* MaritimeChatbot.conversation_history
    current_data_context,  \* MaritimeChatbot.current_data_context
    current_filename,      \* MaritimeChatbot.current_filename
    data_summary,          \* MaritimeChatbot.data_summary
    now,             \* the clock datetime.now() reads
    messages         \* the messages of the last call of the language model

\* the state of one run of upload_file and of the drivers
run == <<grid, pc, header_data, all_events, sheet_idx, header_sections,
         sec_idx, row, events, notes_data, categories, errors, arg, ret>>

\* the state of the web server's folders and requests, and of the assistant
server == <<uploads, output, requests>>
assistant == <<conversation_history, current_data_context, current_filename,
               data_summary, now, messages>>

vars == <<grid, pc, header_data, all_events, sheet_idx, header_sections,
          sec_idx, row, events, notes_data, categories, errors, arg, ret,
          server, assistant>>

----------------------------------------------------------------------------
(* Python values                                                           *)

NoneV == [t |-> "none"]
StrV(s) == [t |-> "str", s |-> s]
NumV(n) == [t |-> "num", n |-> n]

\* isinstance(v, str)
IsStr(v) == v.t = "str"

\* bool(v): None, "" and 0 are falsy
Truthy(v) ==
    CASE v.t = "str" -> v.s # ""
      [] v.t = "num" -> v.n # 0
      [] OTHER -> FALSE

\* str(v)
PyStr(v) ==
    CASE v.t = "str" -> v.s
      [] v.t = "num" -> ToString(v.n)
      [] OTHER -> "None"

----------------------------------------------------------------------------
(* Python string operations, character by character                        *)

Ch(s, i) == SubSeq(s, i, i)

Whitespace == {" ", "\t", "\n"}

DigitChars == "0123456789"
UpperChars == "ABCDEFGHIJKLMNOPQRSTUVWXYZ"
LowerChars == "abcdefghijklmnopqrstuvwxyz"
\* the accented letters of the keyword tables, upper and lower case
UpperAccents == "ÁÉÍÓÚÑ"
LowerAccents == "áéíóúñ"

CharsOf(s) == {Ch(s, i) : i \in 1..Len(s)}

DigitClass == CharsOf(DigitChars)
UpperClass == CharsOf(UpperChars)
AlphaClass ==
    CharsOf(UpperChars) \cup CharsOf(LowerChars)
        \cup CharsOf(UpperAccents) \cup CharsOf(LowerAccents)

IsDigitCh(c) == c \in DigitClass
IsAlphaCh(c) == c \in AlphaClass

\* kw in s
Contains(s, kw) ==
    \E i \in 1..(Len(s) - Len(kw) + 1) : SubSeq(s, i, i + Len(kw) - 1) = kw

\* s.startswith(p)
StartsWith(s, p) == Len(p) <= Len(s) /\ SubSeq(s, 1, Len(p)) = p

RECURSIVE LStrip(_)
LStrip(s) == IF s # "" /\ Head(s) \in Whitespace THEN LStrip(Tail(s)) ELSE s

RECURSIVE RStrip(_)
RStrip(s) ==
    IF s # "" /\ Ch(s, Len(s)) \in Whitespace
    THEN RStrip(SubSeq(s, 1, Len(s) - 1)) ELSE s

\* s.strip()
Strip(s) == RStrip(LStrip(s))

\* the lower-case letter of each upper-case letter
LowerMap ==
    LET upper == UpperChars \o UpperAccents
        lower == LowerChars \o LowerAccents
    IN  [c \in CharsOf(upper) |->
            Ch(lower, CHOOSE i \in 1..Len(upper) : Ch(upper, i) = c)]

LowerCh(c) == IF c \in DOMAIN LowerMap THEN LowerMap[c] ELSE c

RECURSIVE Lower(_)
\* s.lower(), half by half
Lower(s) ==
    IF Len(s) = 0 THEN ""
    ELSE IF Len(s) = 1 THEN LowerCh(s)
    ELSE LET h == Len(s) \div 2
         IN  Lower(SubSeq(s, 1, h)) \o Lower(SubSeq(s, h + 1, Len(s)))

\* s.isdigit()
IsDigit(s) == s # "" /\ \A i \in 1..Len(s) : IsDigitCh(Ch(s, i))

RECURSIVE KeepDigits(_)
\* ''.join([c for c in s if c.isdigit()])
KeepDigits(s) ==
    IF s = "" THEN ""
    ELSE (IF IsDigitCh(Head(s)) THEN Head(s) ELSE "") \o KeepDigits(Tail(s))

RECURSIVE KeepAlpha(_)
\* ''.join([c for c in s if c.isalpha()])
KeepAlpha(s) ==
    IF s = "" THEN ""
    ELSE (IF IsAlphaCh(Head(s)) THEN Head(s) ELSE "") \o KeepAlpha(Tail(s))

DigitVal(c) == CHOOSE d \in 0..9 : ToString(d) = c

RECURSIVE ParseInt(_)
\* int(s) of a non-empty digit string
ParseInt(s) ==
    IF s = "" THEN 0
    ELSE 10 * ParseInt(SubSeq(s, 1, Len(s) - 1)) + DigitVal(Ch(s, Len(s)))

\* the format without its zero padding
NoPad2(n) == ToString(n)

\* f"{n:02d}" of a natural number
Pad2(n) == IF n < 10 THEN "0" \o ToString(n) ELSE ToString(n)

\* index of the first occurrence of the one-character string c in s, 0 if none
FirstIndex(s, c) ==
    IF \E i \in 1..Len(s) : Ch(s, i) = c
    THEN CHOOSE i \in 1..Len(s) : Ch(s, i) = c /\ \A j \in 1..(i - 1) : Ch(s, j) # c
    ELSE 0

\* s.split(c)[0]
BeforeFirst(s, c) ==
    IF FirstIndex(s, c) = 0 THEN s ELSE SubSeq(s, 1, FirstIndex(s, c) - 1)

\* s.split(c, 1)[1], for s that contains c
AfterFirst(s, c) == SubSeq(s, FirstIndex(s, c) + 1, Len(s))

----------------------------------------------------------------------------
(* Dicts as item sequences                                                 *)

\* ref in data
Has(data, ref) == \E i \in 1..Len(data) : data[i].ref = ref

\* data.get(ref)
Get(data, ref) ==
    IF Has(data, ref)
    THEN data[CHOOSE i \in 1..Len(data) : data[i].ref = ref].val
    ELSE NoneV

\* the greatest element of a non-empty set of integers
MaxOf(S) == CHOOSE x \in S : \A y \in S : y <= x

----------------------------------------------------------------------------
(* extract_timesheet_events.py                                             *)

\* int('') raises ValueError: the reference has no digit
split_raises(cell_ref) == KeepDigits(cell_ref) = ""

\* the split that reads one digit of the row only
split_first_digit(cell_ref) ==
    [col |-> KeepAlpha(cell_ref), row |-> ParseInt(SubSeq(KeepDigits(cell_ref), 1, 1))]

split_cell_reference(cell_ref) ==
    [col |-> KeepAlpha(cell_ref), row |-> ParseInt(KeepDigits(cell_ref))]

format_time(time_value) ==
    IF time_value = NoneV THEN NoneV
    ELSE LET time_str == Strip(PyStr(time_value)) IN
         IF Contains(time_str, ":") THEN StrV(time_str)
         ELSE IF IsDigit(time_str) /\ Len(time_str) <= 2
              THEN StrV(Pad2(ParseInt(time_str)) \o ":00")
         ELSE IF IsDigit(time_str) /\ Len(time_str) = 3
              THEN StrV(Pad2(ParseInt(SubSeq(time_str, 1, 1))) \o ":"
                        \o Pad2(ParseInt(SubSeq(time_str, 2, 3))))
         ELSE IF IsDigit(time_str) /\ Len(time_str) = 4
              THEN StrV(Pad2(ParseInt(SubSeq(time_str, 1, 2))) \o ":"
                        \o Pad2(ParseInt(SubSeq(time_str, 3, 4))))
         ELSE StrV(time_str)

format_date(date_value) ==
    IF date_value = NoneV THEN NoneV
    ELSE LET date_str == Strip(PyStr(date_value)) IN
         IF Contains(date_str, " ") THEN StrV(BeforeFirst(date_str, " "))
         ELSE StrV(date_str)

\* value.strip().lower() of a string cell
CleanLower(v) == Lower(Strip(v.s))

\* the string cells of any row whose cleaned text is one of words
AnyRowCells(data, r, words) ==
    {j \in 1..Len(data) :
        /\ IsStr(data[j].val)
        /\ CleanLower(data[j].val) \in words}

\* the string cells of the row whose cleaned text is one of words
RowCells(data, r, words) ==
    {j \in 1..Len(data) :
        /\ IsStr(data[j].val)
        /\ split_cell_reference(data[j].ref).row = r
        /\ CleanLower(data[j].val) \in words}

\* the column the inner loop leaves in col_xxx: the last matching cell wins
LastCol(data, S) == split_cell_reference(data[MaxOf(S)].ref).col

NoSection == [format |-> "none"]

\* what one iteration of the outer loop appends to header_sections
SectionAt(data, i) ==
    LET v == data[i].val
        p == split_cell_reference(data[i].ref)
    IN  IF ~IsStr(v) THEN NoSection
        ELSE IF CleanLower(v) = "event"
        THEN LET dates == RowCells(data, p.row, {"date"})
                 times == RowCells(data, p.row, {"time"})
             IN  IF dates # {} /\ times # {}
                 THEN [format |-> "english", event_col |-> p.col,
                       date_col |-> LastCol(data, dates),
                       time_col |-> LastCol(data, times),
                       start_row |-> p.row + 1]
                 ELSE NoSection
        ELSE IF CleanLower(v) = "date" /\ StartsWith(data[i].ref, "A")
        THEN LET hrs == RowCells(data, p.row, {"hrs", "time"})
                 evs == RowCells(data, p.row, {"event"})
             IN  IF hrs # {} /\ evs # {}
                 THEN [format |-> "spanish", event_col |-> LastCol(data, evs),
                       date_col |-> p.col,
                       time_col |-> LastCol(data, hrs),
                       start_row |-> p.row + 1]
                 ELSE NoSection
        ELSE NoSection

IsSection(s) == s # NoSection

find_timesheet_headers(data) ==
    SelectSeq([i \in 1..Len(data) |-> SectionAt(data, i)], IsSection)

\* a cell that starts a pattern search calls split_cell_reference on itself
\* and on every string cell of the sheet
IsPatternCell(data, i) ==
    /\ IsStr(data[i].val)
    /\ \/ CleanLower(data[i].val) = "event"
       \/ CleanLower(data[i].val) = "date" /\ StartsWith(data[i].ref, "A")

find_timesheet_headers_raises(data) ==
    \E i \in 1..Len(data) :
        /\ IsPatternCell(data, i)
        /\ \/ split_raises(data[i].ref)
           \/ \E j \in 1..Len(data) :
                 IsStr(data[j].val) /\ split_raises(data[j].ref)

\* f"{section['event_col']}{row}"
CellRef(col, r) == col \o ToString(r)

\* the two break conditions of the row walk
WalkStops(data, section, r) ==
    LET event_cell == CellRef(section.event_col, r)
        event_value == Get(data, event_cell)
    IN  \/ ~Has(data, event_cell)
        \/ ~Truthy(event_value)
        \/ IsStr(event_value) /\ Strip(event_value.s) = ""

\* the event dict of one row
EventOf(data, section, r) ==
    [Event |-> Strip(PyStr(Get(data, CellRef(section.event_col, r)))),
     Date |-> format_date(Get(data, CellRef(section.date_col, r))),
     Time |-> format_time(Get(data, CellRef(section.time_col, r))),
     Section |-> section.format,
     Row |-> r]

\* event['Sheet'] = sheet_name; event['Section_Number'] = i + 1
Tagged(evs, sheet_name, number) ==
    [k \in 1..Len(evs) |->
        [Event |-> evs[k].Event, Date |-> evs[k].Date, Time |-> evs[k].Time,
         Section |-> evs[k].Section, Row |-> evs[k].Row,
         Sheet |-> sheet_name, Section_Number |-> number]]

----------------------------------------------------------------------------
(* basic_analyzer.py: the keyword classifier                                *)

\* the keys of the categories dict, in order
CategoryNames ==
    <<"Alije/Transferencia", "Carga", "Descarga", "Llegada/Salida", "Muestreo",
      "Inspección", "Operaciones de Tanque", "Limpieza", "Certificación",
      "Otros">>

\* the patterns dict, in insertion order
Patterns ==
    << [category |-> "Alije/Transferencia", keywords |->
          <<"barges", "barge", "cast off", "approach", "line on board",
            "all fast", "hoses connected", "alongside", "mooring", "unmoor",
            "berth", "departure", "first line", "last line", "ship to ship",
            "transfer",
            "barcazas", "barcaza", "atraque", "desatraque", "amarre",
            "desamarre", "aproximación", "acercamiento", "transferencia",
            "alije", "mangueras conectadas", "primera línea", "última línea",
            "buque a buque">>],
       [category |-> "Carga", keywords |->
          <<"loading", "load", "cargo loading", "start loading",
            "finish loading", "loading completed", "loading operation",
            "carga", "cargar", "cargando", "inicio carga", "fin carga",
            "carga completada", "operación de carga", "embarque">>],
       [category |-> "Descarga", keywords |->
          <<"discharge", "unload", "unloading", "cargo discharge",
            "discharge completed",
            "descarga", "descargar", "descargando", "descarga completada",
            "desembarque">>],
       [category |-> "Llegada/Salida", keywords |->
          <<"arrival", "arrive", "departure", "depart", "eta", "etd",
            "pilot on board", "pilot off", "tug", "tugboat", "escort",
            "anchor",
            "llegada", "llegar", "salida", "salir", "práctico a bordo",
            "práctico fuera", "remolcador", "escolta", "ancla", "fondeo">>],
       [category |-> "Muestreo", keywords |->
          <<"sample", "sampling", "samples taken", "sample collection",
            "laboratory sample",
            "muestra", "muestras", "muestreo", "toma de muestras",
            "recolección muestras", "muestra laboratorio">>],
       [category |-> "Inspección", keywords |->
          <<"inspection", "inspections", "survey", "check", "verification",
            "examine", "tank inspection", "cargo inspection",
            "safety inspection",
            "inspección", "inspecciones", "verificación", "revisión",
            "chequeo", "inspección tanques", "inspección carga",
            "inspección seguridad", "verificar">>],
       [category |-> "Operaciones de Tanque", keywords |->
          <<"tank", "tanks", "cargo tank", "pump", "pumping", "valve",
            "pipeline", "manifold", "cargo system", "tank cleaning",
            "tank preparation",
            "tanque", "tanques", "tanque carga", "bomba", "bombeo", "válvula",
            "tubería", "colector", "sistema carga", "limpieza tanque",
            "preparación tanque">>],
       [category |-> "Limpieza", keywords |->
          <<"cleaning", "wash", "clean", "tank cleaning", "cargo cleaning",
            "limpieza", "lavado", "limpiar", "limpieza tanque",
            "limpieza carga">>],
       [category |-> "Certificación", keywords |->
          <<"certificate", "certification", "cert", "document",
            "documentation",
            "certificado", "certificación", "documento", "documentación">>] >>

\* any(keyword in event_text for keyword in keywords)
AnyKeyword(event_text, keywords) ==
    \E k \in 1..Len(keywords) : Contains(event_text, keywords[k])

\* the loop without its break: the last matching category wins
LastCategory(event_text, i) ==
    LET hits == {j \in i..Len(Patterns) :
                    AnyKeyword(event_text, Patterns[j].keywords)}
    IN  IF hits = {} THEN "Otros" ELSE Patterns[MaxOf(hits)].category

RECURSIVE FirstCategory(_, _)
\* the for/break over patterns.items() from its i-th item on; "Otros" when
\* the loop ends with categorized still False
FirstCategory(event_text, i) ==
    IF i > Len(Patterns) THEN "Otros"
    ELSE IF AnyKeyword(event_text, Patterns[i].keywords)
         THEN Patterns[i].category
         ELSE FirstCategory(event_text, i + 1)

\* the category one event is appended to
CategoryOf(event) == FirstCategory(Lower(event.Event), 1)

\* the events of evs appended to category c, in order
EventsIn(evs, c) ==
    LET Keep(e) == CategoryOf(e) = c IN SelectSeq(evs, Keep)

\* {k: v for k, v in categories.items() if v}
categorize_events(evs) ==
    LET full == [c \in 1..Len(CategoryNames) |->
                    [category |-> CategoryNames[c],
                     events |-> EventsIn(evs, CategoryNames[c])]]
        NonEmpty(x) == x.events # <<>>
    IN  SelectSeq(full, NonEmpty)

----------------------------------------------------------------------------
(* Result dicts: a function from the keys present to their values          *)

EmptyDict == [k \in {} |-> ""]

\* d[k] = v
Put(d, k, v) == [x \in DOMAIN d \cup {k} |-> IF x = k THEN v ELSE d[x]]

RECURSIVE JoinFrom(_, _)
\* ' '.join([str(v) for v in data.values() if v]), from item i on
JoinFrom(data, i) ==
    IF i > Len(data) THEN ""
    ELSE IF ~Truthy(data[i].val) THEN JoinFrom(data, i + 1)
    ELSE LET rest == JoinFrom(data, i + 1)
             more == \E j \in (i + 1)..Len(data) : Truthy(data[j].val)
         IN  PyStr(data[i].val) \o (IF more THEN " " ELSE "") \o rest

AllText(data) == JoinFrom(data, 1)

----------------------------------------------------------------------------
(* extract_report_header.py: extract_operational_data                      *)

field_mapping ==
    << [key |-> "file_number", names |-> <<"File N°", "File No">>],
       [key |-> "terminal", names |-> <<"Terminal">>],
       [key |-> "inspector", names |-> <<"Inspector", "Surveyor">>],
       [key |-> "revised_by", names |-> <<"Revised by">>],
       [key |-> "approved_by", names |-> <<"Approved by">>],
       [key |-> "operation_date", names |-> <<"Date of Operation completed">>],
       [key |-> "report_date", names |-> <<"Date of Report Issuing">>],
       [key |-> "note", names |-> <<"NOTE">>] >>

\* value_clean.startswith(field_name + ':') for a name of the field
InlineLabelled(value_clean, names) ==
    \E n \in 1..Len(names) : StartsWith(value_clean, names[n] \o ":")

\* the field keys one cell assigns
KeysOfCell(value_clean) ==
    {field_mapping[f].key : f \in {g \in 1..Len(field_mapping) :
        InlineLabelled(value_clean, field_mapping[g].names)}}

RECURSIVE OperationalDataUpTo(_, _)
\* operational_data after the first n cells of the sheet
OperationalDataUpTo(sheet_data, n) ==
    IF n = 0 THEN EmptyDict
    ELSE LET prev == OperationalDataUpTo(sheet_data, n - 1)
             value == sheet_data[n].val
         IN  IF ~Truthy(value) \/ ~IsStr(value) THEN prev
             ELSE LET value_clean == Strip(value.s)
                      keys == KeysOfCell(value_clean)
                      field_value == Strip(AfterFirst(value_clean, ":"))
                  IN  [k \in DOMAIN prev \cup keys |->
                          IF k \in keys THEN field_value ELSE prev[k]]

extract_operational_data(sheet_data) ==
    OperationalDataUpTo(sheet_data, Len(sheet_data))

----------------------------------------------------------------------------
(* extract_operational_notes.py: extract_timesheet_header                  *)

header_fields ==
    << [key |-> "vessel", name |-> "Vessel"],
       [key |-> "terminal", name |-> "Terminal"],
       [key |-> "location", name |-> "Location"],
       [key |-> "product", name |-> "Product"],
       [key |-> "date", name |-> "Date"],
       [key |-> "file_no", name |-> "File N"] >>

\* header_fields.values()
LabelNames == {header_fields[f].name : f \in 1..Len(header_fields)}

HeaderRows == 15

\* the characters from "A" to three past "Z", in code point order (the
\* column letters of a cellmap are get_column_letter's: upper case)
FromA == "ABCDEFGHIJKLMNOPQRSTUVWXYZ[\\]"

\* chr(ord(col) + k) of a one-letter column
ChrOrdPlus(col, k) ==
    Ch(FromA, (CHOOSE i \in 1..Len(FromA) : Ch(FromA, i) = col) + k)

\* the accepted value of a neighbour cell: present, truthy, and after
\* str().strip() non-empty, not the field name, longer than one character
\* and not a field name of header_fields
Accepted(sheet_data, ref, field_name) ==
    /\ Has(sheet_data, ref)
    /\ Truthy(Get(sheet_data, ref))
    /\ LET adj_value == Strip(PyStr(Get(sheet_data, ref)))
       IN  /\ adj_value # ""
           /\ adj_value # field_name
           /\ Len(adj_value) > 1
           /\ adj_value \notin LabelNames

\* the candidates with the cell below tried first
below_first(col, r) ==
    << CellRef(col, r + 1), CellRef(ChrOrdPlus(col, 1), r),
       CellRef(ChrOrdPlus(col, 2), r), CellRef(ChrOrdPlus(col, 3), r) >>

\* adjacent_cells
adjacent_cells(col, r) ==
    << CellRef(ChrOrdPlus(col, 1), r), CellRef(ChrOrdPlus(col, 2), r),
       CellRef(ChrOrdPlus(col, 3), r), CellRef(col, r + 1) >>

\* index of the first accepted candidate, 0 if none
FirstAccepted(sheet_data, cands, field_name) ==
    IF \E a \in 1..Len(cands) : Accepted(sheet_data, cands[a], field_name)
    THEN CHOOSE a \in 1..Len(cands) :
            /\ Accepted(sheet_data, cands[a], field_name)
            /\ \A b \in 1..(a - 1) : ~Accepted(sheet_data, cands[b], field_name)
    ELSE 0

\* header_data[field_key] = value, with the line the code prints for it:
\* how the field was found, in which cell, and the cell the value is from
Found(st, field_key, value, how, cell, from) ==
    [st EXCEPT !.header_data = Put(@, field_key, value),
               !.found = Append(@, [key |-> field_key, value |-> value,
                                    how |-> how, cell |-> cell, from |-> from])]

RECURSIVE InlineLoop(_, _, _, _)
\* the first for loop over header_fields of one cell, from field f on
InlineLoop(st, cell_ref, value_clean, f) ==
    IF f > Len(header_fields) THEN st
    ELSE LET fld == header_fields[f]
             field_value == Strip(AfterFirst(value_clean, ":"))
         IN  IF /\ fld.key \notin DOMAIN st.header_data
                /\ Contains(value_clean, fld.name)
                /\ Contains(value_clean, ":")
                /\ field_value # ""
                /\ field_value # fld.name
                /\ Len(field_value) > 1
             THEN InlineLoop(Found(st, fld.key, field_value, "inline",
                                   cell_ref, cell_ref),
                             cell_ref, value_clean, f + 1)
             ELSE InlineLoop(st, cell_ref, value_clean, f + 1)

RECURSIVE AdjacentLoop(_, _, _, _, _)
\* the second for loop over header_fields of one cell, from field f on
AdjacentLoop(st, sheet_data, cell_ref, value_clean, f) ==
    IF f > Len(header_fields) \/ st.raised THEN st
    ELSE LET fld == header_fields[f]
             p == split_cell_reference(cell_ref)
             target_cell == CellRef("D", p.row)
         IN  IF ~(fld.key \notin DOMAIN st.header_data /\ value_clean = fld.name)
             THEN AdjacentLoop(st, sheet_data, cell_ref, value_clean, f + 1)
             ELSE IF p.col = "B" /\ Accepted(sheet_data, target_cell, fld.name)
             THEN AdjacentLoop(
                     Found(st, fld.key,
                           Strip(PyStr(Get(sheet_data, target_cell))),
                           "adjacent", cell_ref, target_cell),
                     sheet_data, cell_ref, value_clean, f + 1)
             \* ord() of a column that is not one character raises TypeError
             ELSE IF Len(p.col) # 1 THEN [st EXCEPT !.raised = TRUE]
             ELSE LET cands == adjacent_cells(p.col, p.row)
                      a == FirstAccepted(sheet_data, cands, fld.name)
                  IN  IF a = 0
                      THEN AdjacentLoop(st, sheet_data, cell_ref, value_clean,
                                        f + 1)
                      ELSE AdjacentLoop(
                              Found(st, fld.key,
                                    Strip(PyStr(Get(sheet_data, cands[a]))),
                                    "adjacent", cell_ref, cands[a]),
                              sheet_data, cell_ref, value_clean, f + 1)

RECURSIVE TimesheetHeaderUpTo(_, _)
\* the state of extract_timesheet_header after the first n cells
TimesheetHeaderUpTo(sheet_data, n) ==
    IF n = 0 THEN [header_data |-> EmptyDict, found |-> <<>>, raised |-> FALSE]
    ELSE LET prev == TimesheetHeaderUpTo(sheet_data, n - 1)
             value == sheet_data[n].val
             cell_ref == sheet_data[n].ref
         IN  IF prev.raised \/ ~Truthy(value) \/ ~IsStr(value) THEN prev
             ELSE IF split_raises(cell_ref) THEN [prev EXCEPT !.raised = TRUE]
             ELSE IF split_cell_reference(cell_ref).row > HeaderRows THEN prev
             ELSE LET value_clean == Strip(PyStr(value))
                  IN  AdjacentLoop(
                          InlineLoop(prev, cell_ref, value_clean, 1),
                          sheet_data, cell_ref, value_clean, 1)

TimesheetHeaderRun(sheet_data) == TimesheetHeaderUpTo(sheet_data, Len(sheet_data))

extract_timesheet_header(sheet_data) == TimesheetHeaderRun(sheet_data).header_data

----------------------------------------------------------------------------
(* extract_operational_notes.py: structure, weather, remarks               *)

\* the cells the loops over sheet_data.items() do not skip
IsText(value) == Truthy(value) /\ IsStr(value)

RECURSIVE StructureUpTo(_, _)
\* the structure dict of find_notes_structure after the first n cells
StructureUpTo(sheet_data, n) ==
    IF n = 0
    THEN [special_notes_found |-> FALSE, general_notes_found |-> FALSE,
          special_notes_col |-> NoneV, general_notes_col |-> NoneV,
          start_row |-> NoneV]
    ELSE LET prev == StructureUpTo(sheet_data, n - 1)
             value == sheet_data[n].val
         IN  IF ~IsText(value) THEN prev
             ELSE LET value_clean == Strip(value.s)
                      p == split_cell_reference(sheet_data[n].ref)
                  IN  IF Contains(value_clean, "Special Notes")
                      THEN [prev EXCEPT !.special_notes_found = TRUE,
                                        !.special_notes_col = StrV(p.col),
                                        !.start_row = NumV(p.row)]
                      ELSE IF Contains(value_clean, "General Notes")
                      THEN [prev EXCEPT !.general_notes_found = TRUE,
                                        !.general_notes_col = StrV(p.col),
                                        !.start_row =
                                            IF ~Truthy(@) THEN NumV(p.row) ELSE @]
                      ELSE prev

\* split_cell_reference is called on every text cell
find_notes_structure_raises(sheet_data) ==
    \E i \in 1..Len(sheet_data) :
        IsText(sheet_data[i].val) /\ split_raises(sheet_data[i].ref)

find_notes_structure(sheet_data) ==
    LET scanned == StructureUpTo(sheet_data, Len(sheet_data))
    IN  IF scanned.special_notes_found \/ scanned.general_notes_found
        THEN scanned ELSE NoneV

\* not structure or not structure['start_row']
NoStartRow(structure) == structure = NoneV \/ ~Truthy(structure.start_row)

weather_keywords == <<"Rain", "Cloudy", "Clear">>
sea_keywords == <<"Rough", "Choppy", "Calm">>
WeatherColumns == <<"A", "B", "C", "D", "E", "F", "G", "H", "I", "J">>

\* range(1, 10): the last row offset the weather scan visits
WeatherLastOffset == 9

RECURSIVE MarkedIn(_, _, _)
\* the keywords of kws, from the k-th on, that the cell text holds with an X,
\* lower-cased, in keyword order
MarkedIn(value_clean, kws, k) ==
    IF k > Len(kws) THEN <<>>
    ELSE (IF Contains(value_clean, kws[k]) /\ Contains(value_clean, "X")
          THEN <<Lower(kws[k])>> ELSE <<>>) \o MarkedIn(value_clean, kws, k + 1)

\* the cells a scan of the rows start_row + 1 .. start_row + last_offset and
\* of the columns given visits and finds truthy, each with its place in the
\* scan: row by row, and column by column within a row
ScanHits(sheet_data, columns, start_row, last_offset) ==
    LET ColIndex(col) ==
            IF \E c \in 1..Len(columns) : columns[c] = col
            THEN CHOOSE c \in 1..Len(columns) : columns[c] = col ELSE 0
        Offset(i) == ParseInt(KeepDigits(sheet_data[i].ref)) - start_row
        Visited(i) ==
            /\ Truthy(sheet_data[i].val)
            /\ KeepDigits(sheet_data[i].ref) # ""
            /\ ColIndex(KeepAlpha(sheet_data[i].ref)) # 0
            /\ Offset(i) \in 1..last_offset
            /\ CellRef(KeepAlpha(sheet_data[i].ref), start_row + Offset(i))
                  = sheet_data[i].ref
    IN  {[pos |-> (Offset(i) - 1) * Len(columns)
                     + ColIndex(KeepAlpha(sheet_data[i].ref)),
          i |-> i] : i \in {j \in 1..Len(sheet_data) : Visited(j)}}

\* the hit the scan reaches first
FirstHit(hits) == CHOOSE h \in hits : \A g \in hits : h.pos <= g.pos

RECURSIVE WeatherFrom(_, _, _)
\* what the scan appends over the cells of hits, for one keyword list
WeatherFrom(sheet_data, hits, kws) ==
    IF hits = {} THEN <<>>
    ELSE LET h == FirstHit(hits)
         IN  MarkedIn(Strip(PyStr(sheet_data[h.i].val)), kws, 1)
                \o WeatherFrom(sheet_data, hits \ {h}, kws)

extract_weather_conditions(sheet_data, structure) ==
    IF NoStartRow(structure)
    THEN [weather_conditions |-> <<>>, sea_conditions |-> <<>>]
    ELSE [weather_conditions |->
              WeatherFrom(sheet_data,
                          ScanHits(sheet_data, WeatherColumns, structure.start_row.n,
                                   WeatherLastOffset),
                          weather_keywords),
          sea_conditions |->
              WeatherFrom(sheet_data,
                          ScanHits(sheet_data, WeatherColumns, structure.start_row.n,
                                   WeatherLastOffset),
                          sea_keywords)]

RECURSIVE RemarksFrom(_, _)
\* notes_data['remarks'] from cell i on
RemarksFrom(sheet_data, i) ==
    IF i > Len(sheet_data) THEN <<>>
    ELSE LET value == sheet_data[i].val
             value_clean == Strip(value.s)
             remark_content == Strip(AfterFirst(value_clean, ":"))
         IN  (IF /\ IsText(value)
                 /\ Contains(value_clean, "Remarks:")
                 /\ remark_content \notin {"-", ""}
              THEN <<remark_content>> ELSE <<>>)
             \o RemarksFrom(sheet_data, i + 1)

RECURSIVE CellsWith(_, _, _)
\* the cleaned text of every text cell that contains marker, from cell i on
CellsWith(sheet_data, marker, i) ==
    IF i > Len(sheet_data) THEN <<>>
    ELSE LET value == sheet_data[i].val
         IN  (IF IsText(value) /\ Contains(Strip(value.s), marker)
              THEN <<Strip(value.s)>> ELSE <<>>)
             \o CellsWith(sheet_data, marker, i + 1)

extract_remarks_and_notes(sheet_data) ==
    [remarks |-> RemarksFrom(sheet_data, 1),
     special_notes |-> CellsWith(sheet_data, "Special Notes", 1),
     general_notes |-> CellsWith(sheet_data, "General Notes", 1)]

NotesMarkers == {"Special Notes", "General Notes", "Pumping Time", "Weather conditions"}

\* any(keyword in sheet_text for keyword in [...])
HasNotesMarker(sheet_data) ==
    \E keyword \in NotesMarkers : Contains(AllText(sheet_data), keyword)

\* the last sheet with a marker instead of the first, 0 for None
LastMarkedSheet(data) ==
    IF \E i \in 1..Len(data) : HasNotesMarker(data[i].cells)
    THEN CHOOSE i \in 1..Len(data) :
            /\ HasNotesMarker(data[i].cells)
            /\ \A j \in (i + 1)..Len(data) : ~HasNotesMarker(data[j].cells)
    ELSE 0

\* index of the sheet find_timesheet_with_notes returns, 0 for None
find_timesheet_with_notes(data) ==
    IF \E i \in 1..Len(data) : HasNotesMarker(data[i].cells)
    THEN CHOOSE i \in 1..Len(data) :
            /\ HasNotesMarker(data[i].cells)
            /\ \A j \in 1..(i - 1) : ~HasNotesMarker(data[j].cells)
    ELSE 0

----------------------------------------------------------------------------
(* Regular expression pieces, as the re module matches them                *)

\* the first index >= i of text that is not whitespace (\s*), Len + 1 if none
RECURSIVE SkipSpace(_, _)
SkipSpace(text, i) ==
    IF i <= Len(text) /\ Ch(text, i) \in Whitespace
    THEN SkipSpace(text, i + 1) ELSE i

\* the last index of the run of characters of text from i on that satisfy
\* the class (i - 1 when the run is empty)
RECURSIVE RunEnd(_, _, _)
RunEnd(text, i, class) ==
    IF i <= Len(text) /\ Ch(text, i) \in class
    THEN RunEnd(text, i + 1, class) ELSE i - 1

\* lit matches at index i of text (re.IGNORECASE when ci)
LitAt(text, i, lit, ci) ==
    /\ i >= 1
    /\ i + Len(lit) - 1 <= Len(text)
    /\ LET part == SubSeq(text, i, i + Len(lit) - 1)
       IN  IF ci THEN Lower(part) = Lower(lit) ELSE part = lit

\* the least index >= from at which lit matches, 0 if none
FindLit(text, lit, from, ci) ==
    LET hits == {i \in from..Len(text) : LitAt(text, i, lit, ci)}
    IN  IF hits = {} THEN 0 ELSE CHOOSE i \in hits : \A j \in hits : i <= j

\* the least index >= from of a character of the class, 0 if none
FindChar(text, class, from) ==
    LET hits == {i \in from..Len(text) : Ch(text, i) \in class}
    IN  IF hits = {} THEN 0 ELSE CHOOSE i \in hits : \A j \in hits : i <= j

NoMatch == [end |-> 0]

----------------------------------------------------------------------------
(* extract_report_header.py: vessels, products, commercial references      *)

Quotes == {"\"", "'"}

\* prefix\s*["']([^"']+)["'] at i
QuotedAt(text, i, prefix) ==
    LET q1 == SkipSpace(text, i + Len(prefix))
        q2 == FindChar(text, Quotes, q1 + 1)
    IN  IF /\ LitAt(text, i, prefix, TRUE)
           /\ q1 <= Len(text) /\ Ch(text, q1) \in Quotes
           /\ q2 > q1 + 1
        THEN [end |-> q2, group |-> SubSeq(text, q1 + 1, q2 - 1)]
        ELSE NoMatch

TankerAt(text, i) == QuotedAt(text, i, "M/T")
BargeAt(text, i) == QuotedAt(text, i, "Barge")

\* Voy\s*#?\s*(\d+) at i
VoyageAt(text, i) ==
    LET a == SkipSpace(text, i + 3)
        b == IF a <= Len(text) /\ Ch(text, a) = "#" THEN SkipSpace(text, a + 1) ELSE a
        e == RunEnd(text, b, DigitClass)
    IN  IF LitAt(text, i, "Voy", TRUE) /\ e >= b
        THEN [end |-> e, group |-> SubSeq(text, b, e)]
        ELSE NoMatch

Units == <<"CBM", "MT", "BBL", "LT">>
ProductNames ==
    <<"GAS OIL", "GASOIL", "DIESEL", "FUEL OIL", "CRUDE OIL", "GASOLINE", "JET FUEL">>

\* the first alternative of alts that matches at i ignoring case, 0 if none
AltAt(text, i, alts) ==
    IF \E a \in 1..Len(alts) : LitAt(text, i, alts[a], TRUE)
    THEN CHOOSE a \in 1..Len(alts) :
            /\ LitAt(text, i, alts[a], TRUE)
            /\ \A b \in 1..(a - 1) : ~LitAt(text, i, alts[b], TRUE)
    ELSE 0

\* \d+[,.]?\d* matches the whole of s
IsAmount(s) ==
    /\ s # "" /\ IsDigitCh(Ch(s, 1))
    /\ Cardinality({k \in 1..Len(s) : Ch(s, k) \in {",", "."}}) <= 1

\* (\d+[,.]?\d*)\s*(CBM|MT|BBL|LT) at i
QuantityAt(text, i) ==
    LET e == RunEnd(text, i, DigitClass \cup {",", "."})
        u == SkipSpace(text, e + 1)
        a == AltAt(text, u, Units)
    IN  IF e >= i /\ IsAmount(SubSeq(text, i, e)) /\ a # 0
        THEN [end |-> u + Len(Units[a]) - 1,
              group |-> [amount |-> SubSeq(text, i, e),
                         unit |-> SubSeq(text, u, u + Len(Units[a]) - 1)]]
        ELSE NoMatch

ProductAt(text, i) ==
    LET a == AltAt(text, i, ProductNames)
    IN  IF a # 0
        THEN [end |-> i + Len(ProductNames[a]) - 1,
              group |-> SubSeq(text, i, i + Len(ProductNames[a]) - 1)]
        ELSE NoMatch

\* BOL\s*(\d+) at i
BolAt(text, i) ==
    LET b == SkipSpace(text, i + 3)
        e == RunEnd(text, b, DigitClass)
    IN  IF LitAt(text, i, "BOL", TRUE) /\ e >= b
        THEN [end |-> e, group |-> SubSeq(text, b, e)]
        ELSE NoMatch

CompanyClass == UpperClass \cup Whitespace \cup {"&"}

\* ([A-Z][A-Z\s&]+)\s*-\s*\(Ref\.\s*#\s*([^)]+)\) at i
CommercialRefAt(text, i) ==
    LET e == RunEnd(text, i + 1, CompanyClass)
        r == SkipSpace(text, e + 2)
        h == SkipSpace(text, r + 5)
        c == FindChar(text, {")"}, h + 1)
    IN  IF /\ Ch(text, i) \in UpperClass
           /\ e >= i + 1
           /\ e + 1 <= Len(text) /\ Ch(text, e + 1) = "-"
           /\ LitAt(text, r, "(Ref.", FALSE)
           /\ h <= Len(text) /\ Ch(text, h) = "#"
           /\ c > h + 1
        THEN [end |-> c,
              group |-> [company |-> Strip(SubSeq(text, i, e)),
                         reference |-> Strip(SubSeq(text, h + 1, c - 1))]]
        ELSE NoMatch

RECURSIVE Captures(_, _)
\* the captures of the non-overlapping matches from i on, left to right, of
\* the matches at, which gives the match that starts at each index
Captures(at, i) ==
    LET starts == {j \in i..Len(at) : at[j] # NoMatch}
    IN  IF starts = {} THEN <<>>
        ELSE LET m == at[CHOOSE j \in starts : \A k \in starts : j <= k]
             IN  <<m.group>> \o Captures(at, m.end + 1)

\* re.findall(pattern, text, re.IGNORECASE)
FindAll(text, At(_, _)) ==
    Captures([j \in 1..Len(text) |-> At(text, j)], 1)

extract_vessel_info(text) ==
    LET tankers == FindAll(text, TankerAt)
        barges == FindAll(text, BargeAt)
        voyages == FindAll(text, VoyageAt)
        d1 == IF tankers # <<>> THEN Put(EmptyDict, "tanker", tankers) ELSE EmptyDict
        d2 == IF barges # <<>> THEN Put(d1, "barge", barges) ELSE d1
    IN  IF voyages # <<>> THEN Put(d2, "voyage", voyages[1]) ELSE d2

\* list(set(products)) is kept as the set: the order of its list is the hash
\* order of the run
extract_product_info(text) ==
    LET quantities == FindAll(text, QuantityAt)
        products == FindAll(text, ProductAt)
        bols == FindAll(text, BolAt)
        d1 == IF quantities # <<>> THEN Put(EmptyDict, "quantities", quantities)
              ELSE EmptyDict
        d2 == IF products # <<>>
              THEN Put(d1, "products", {products[k] : k \in 1..Len(products)})
              ELSE d1
    IN  IF bols # <<>> THEN Put(d2, "bol_numbers", bols) ELSE d2

extract_commercial_refs(text) == FindAll(text, CommercialRefAt)

\* 'cubierta' in sheet_name.lower() or 'cover' in sheet_name.lower()
IsCoverName(sheet_name) ==
    Contains(Lower(sheet_name), "cubierta") \/ Contains(Lower(sheet_name), "cover")

\* the search loop breaking at the first sheet, whatever its name
FirstSheet(data) == IF Len(data) > 0 THEN 1 ELSE 0

\* index of the sheet the search loop breaks at, 0 if none
CoverIndex(data) ==
    IF \E i \in 1..Len(data) : IsCoverName(data[i].name)
    THEN CHOOSE i \in 1..Len(data) :
            IsCoverName(data[i].name) /\ \A j \in 1..(i - 1) : ~IsCoverName(data[j].name)
    ELSE 0

\* extract_report_header after json.load
extract_report_header(data) ==
    LET empty == [report_type |-> NoneV, vessels |-> EmptyDict,
                  products |-> EmptyDict, commercial_references |-> <<>>,
                  operational_data |-> EmptyDict, raw_cubierta_data |-> <<>>]
        c == CoverIndex(data)
    IN  IF c = 0 THEN empty
        \* "if not cubierta_sheet": a cover sheet with no cell is not found
        ELSE IF data[c].cells = <<>> THEN empty
        ELSE LET cubierta_sheet == data[c].cells
                 all_text == AllText(cubierta_sheet)
             IN  [report_type |-> Get(cubierta_sheet, "A2"),
                  vessels |-> extract_vessel_info(all_text),
                  products |-> extract_product_info(all_text),
                  commercial_references |-> extract_commercial_refs(all_text),
                  operational_data |-> extract_operational_data(cubierta_sheet),
                  raw_cubierta_data |-> cubierta_sheet]

\* the lists list(S) of a set can be: its elements in any order, the order
\* being the hash order of the run
ListsOfSet(S) ==
    {l \in [1..Cardinality(S) -> S] :
        \A i, j \in 1..Cardinality(S) : l[i] = l[j] => i = j}

\* the records extract_report_header can return for the grid: one for each
\* order list(set(products)) can have
ReportHeaders(data) ==
    LET h == extract_report_header(data)
    IN  IF "products" \in DOMAIN h.products
        THEN {[h EXCEPT !.products = Put(h.products, "products", l)] :
                 l \in ListsOfSet(h.products.products)}
        ELSE {h}

----------------------------------------------------------------------------
(* extract_operational_notes.py: pumping data                              *)

RECURSIVE Pow10(_)
Pow10(d) == IF d = 0 THEN 1 ELSE 10 * Pow10(d - 1)

RECURSIVE Normal(_, _)
\* the float m / 10^d with no trailing zero decimal
Normal(m, d) ==
    IF d > 0 /\ m % 10 = 0 THEN Normal(m \div 10, d - 1)
    ELSE [t |-> "float", m |-> m, d |-> d]

\* float(s.replace(',', '.')) of a text -?\d+[.,]?\d*
ParseFloat(s) ==
    LET neg == StartsWith(s, "-")
        body == IF neg THEN Tail(s) ELSE s
        sep == FindChar(body, {",", "."}, 1)
        whole == IF sep = 0 THEN body ELSE SubSeq(body, 1, sep - 1)
        frac == IF sep = 0 THEN "" ELSE SubSeq(body, sep + 1, Len(body))
        m == ParseInt(whole \o frac)
    IN  Normal(IF neg THEN 0 - m ELSE m, Len(frac))

\* x < k and x > k for a float x and an integer k
FloatBelow(x, k) == x.m < k * Pow10(x.d)
FloatAbove(x, k) == x.m > k * Pow10(x.d)

\* (-?\d+[.,]?\d*) at i
NumberAt(text, i) ==
    LET b == IF i <= Len(text) /\ Ch(text, i) = "-" THEN i + 1 ELSE i
        e1 == RunEnd(text, b, DigitClass)
        e2 == IF e1 + 1 <= Len(text) /\ Ch(text, e1 + 1) \in {",", "."}
              THEN RunEnd(text, e1 + 2, DigitClass) ELSE e1
    IN  IF e1 >= b THEN [end |-> e2, group |-> SubSeq(text, i, e2)]
        ELSE NoMatch

\* re.search(r'(-?\d+[.,]?\d*)', text): the leftmost match, or NoMatch
SearchNumber(text) ==
    LET hits == {i \in 1..Len(text) : NumberAt(text, i) # NoMatch}
    IN  IF hits = {} THEN NoMatch
        ELSE NumberAt(text, CHOOSE i \in hits : \A j \in hits : i <= j)

\* re.match(r'^-?\d+[.,]?\d*$', text)
IsBareNumber(text) ==
    NumberAt(text, 1) # NoMatch /\ NumberAt(text, 1).end = Len(text)

field_patterns ==
    << [key |-> "pumping_time", name |-> "Pumping Time"],
       [key |-> "pumping_rate", name |-> "Pumping Rate"],
       [key |-> "last_cargo", name |-> "Last Cargo"],
       [key |-> "second_last", name |-> "Second Last"],
       [key |-> "third_last", name |-> "Third Last"],
       [key |-> "vessel_experience_factor", name |-> "Vessel Experience Factor"] >>

PumpingColumns == <<"G", "H", "I", "J", "K", "L", "M", "N", "O", "P">>

\* range(1, 15): the last row offset the pumping scan visits
PumpingLastOffset == 14

RECURSIVE PumpingFields(_, _, _, _, _, _)
\* the loop over field_patterns for one label cell, from field f on
PumpingFields(pumping_data, sheet_data, value_clean, col, current_row, f) ==
    IF f > Len(field_patterns) THEN pumping_data
    ELSE LET fld == field_patterns[f]
             value_cell_ref == CellRef(col, current_row + 1)
             field_value == Get(sheet_data, value_cell_ref)
             field_value_clean == Strip(PyStr(field_value))
             num_match == SearchNumber(field_value_clean)
             next ==
                IF ~(/\ Contains(value_clean, fld.name)
                     /\ Has(sheet_data, value_cell_ref)
                     /\ Truthy(field_value))
                THEN pumping_data
                ELSE IF fld.key \in {"pumping_time", "pumping_rate"}
                THEN (IF num_match # NoMatch
                      THEN Put(pumping_data, fld.key, ParseFloat(num_match.group))
                      ELSE pumping_data)
                ELSE Put(pumping_data, fld.key, StrV(field_value_clean))
         IN  PumpingFields(next, sheet_data, value_clean, col, current_row, f + 1)

RECURSIVE PumpingScan(_, _, _)
\* the labelled scan over the cells of hits
PumpingScan(pumping_data, sheet_data, hits) ==
    IF hits = {} THEN pumping_data
    ELSE LET h == FirstHit(hits)
             p == split_cell_reference(sheet_data[h.i].ref)
         IN  PumpingScan(
                PumpingFields(pumping_data, sheet_data,
                              Strip(PyStr(sheet_data[h.i].val)), p.col, p.row, 1),
                sheet_data, hits \ {h})

RECURSIVE LastInRange(_, _, _)
\* a scan that assigns every number in range, so that the last one stays
LastInRange(pumping_data, sheet_data, i) ==
    IF i > Len(sheet_data) THEN pumping_data
    ELSE LET value == sheet_data[i].val
             value_clean == Strip(PyStr(value))
             num_value == ParseFloat(value_clean)
             next ==
                IF ~(Truthy(value) /\ IsBareNumber(value_clean)) THEN pumping_data
                ELSE IF FloatAbove(num_value, -50) /\ FloatBelow(num_value, 0)
                THEN Put(pumping_data, "pumping_time", num_value)
                ELSE IF FloatBelow(num_value, -100)
                THEN Put(pumping_data, "pumping_rate", num_value)
                ELSE pumping_data
         IN  LastInRange(next, sheet_data, i + 1)

RECURSIVE PumpingFallback(_, _, _)
\* the scan for bare negative numbers, from cell i on
PumpingFallback(pumping_data, sheet_data, i) ==
    IF i > Len(sheet_data) THEN pumping_data
    ELSE LET value == sheet_data[i].val
             value_clean == Strip(PyStr(value))
             num_value == ParseFloat(value_clean)
             next ==
                IF ~(Truthy(value) /\ IsBareNumber(value_clean)) THEN pumping_data
                ELSE IF /\ "pumping_time" \notin DOMAIN pumping_data
                        /\ FloatAbove(num_value, -50) /\ FloatBelow(num_value, 0)
                THEN Put(pumping_data, "pumping_time", num_value)
                ELSE IF /\ "pumping_rate" \notin DOMAIN pumping_data
                        /\ FloatBelow(num_value, -100)
                THEN Put(pumping_data, "pumping_rate", num_value)
                ELSE pumping_data
         IN  PumpingFallback(next, sheet_data, i + 1)

extract_pumping_data(sheet_data, structure) ==
    IF NoStartRow(structure) THEN EmptyDict
    ELSE LET labelled ==
                PumpingScan(EmptyDict, sheet_data,
                            ScanHits(sheet_data, PumpingColumns,
                                     structure.start_row.n, PumpingLastOffset))
         IN  IF \/ "pumping_time" \notin DOMAIN labelled
                \/ "pumping_rate" \notin DOMAIN labelled
             THEN PumpingFallback(labelled, sheet_data, 1)
             ELSE labelled

----------------------------------------------------------------------------
(* extract_operational_notes.py: vessel information and the record         *)

\* the first match of lit1.*?lit2 ... (re.IGNORECASE | re.DOTALL) in lowered
\* text from index from on: the index after it, 0 if there is none
RECURSIVE LazyChainEnd(_, _, _, _)
LazyChainEnd(lowered, lits, k, from) ==
    IF k > Len(lits) THEN from
    ELSE LET i == FindLit(lowered, Lower(lits[k]), from, FALSE)
         IN  IF i = 0 THEN 0
             ELSE LazyChainEnd(lowered, lits, k + 1, i + Len(lits[k]))

\* matches[0].strip() of a chain of literals, "" when there is no match
LazyChain(text, lits) ==
    LET lowered == Lower(text)
        start == FindLit(lowered, Lower(lits[1]), 1, FALSE)
        end == LazyChainEnd(lowered, lits, 1, 1)
    IN  IF end = 0 THEN "" ELSE Strip(SubSeq(text, start, end - 1))

\* records[,\s]*cannot be guaranteed as accurate at index i of lowered
RecordsTailAt(lowered, i) ==
    /\ LitAt(lowered, i, "records", FALSE)
    /\ LitAt(lowered, RunEnd(lowered, i + 7, Whitespace \cup {","}) + 1,
             "cannot be guaranteed as accurate", FALSE)

SubmittedHead ==
    "Any information as submitted above resulting from information obtained from Vessel"

\* the first match of the any_information_submitted pattern, "" if none
SubmittedMatch(text) ==
    LET lowered == Lower(text)
        start == FindLit(lowered, Lower(SubmittedHead), 1, FALSE)
        tails == {i \in (start + Len(SubmittedHead))..Len(lowered) :
                     RecordsTailAt(lowered, i)}
        t == CHOOSE i \in tails : \A j \in tails : i <= j
        end == RunEnd(lowered, t + 7, Whitespace \cup {","})
                 + Len("cannot be guaranteed as accurate")
    IN  IF start = 0 \/ tails = {} THEN "" ELSE Strip(SubSeq(text, start, end))

\* PR-INS-\d+.*?Standard Procedure for Surveyors: the first match, "" if none
ProcedureMatch(text) ==
    LET lowered == Lower(text)
        starts == {i \in 1..Len(lowered) :
                      /\ LitAt(lowered, i, "pr-ins-", FALSE)
                      /\ i + 7 <= Len(lowered) /\ IsDigitCh(Ch(lowered, i + 7))}
        start == CHOOSE i \in starts : \A j \in starts : i <= j
        tail == FindLit(lowered, "standard procedure for surveyors", start + 8, FALSE)
    IN  IF starts = {} THEN ""
        ELSE IF tail = 0 THEN ""
        ELSE Strip(SubSeq(text, start, tail + Len("standard procedure for surveyors") - 1))

extract_vessel_information(sheet_data) ==
    LET all_text == AllText(sheet_data)
        a == SubmittedMatch(all_text)
        b == LazyChain(all_text, <<"API MPMS", "Manual of Petroleum Measurement Standards",
                                   "Chapter", "Guidelines">>)
        c == ProcedureMatch(all_text)
        d1 == IF a # "" THEN Put(EmptyDict, "any_information_submitted", a) ELSE EmptyDict
        d2 == IF b # "" THEN Put(d1, "measurement_standards", b) ELSE d1
    IN  IF c # "" THEN Put(d2, "standard_procedure", c) ELSE d2

\* an exception leaves extract_operational_notes
extract_operational_notes_raises(data) ==
    LET n == find_timesheet_with_notes(data)
    IN  /\ n # 0
        /\ \/ find_notes_structure_raises(data[n].cells)
           \/ TimesheetHeaderRun(data[n].cells).raised

\* extract_operational_notes after json.load
extract_operational_notes(data) ==
    LET n == find_timesheet_with_notes(data)
    IN  IF n = 0
        THEN [weather_conditions |-> EmptyDict, pumping_data |-> EmptyDict,
              remarks_and_notes |-> EmptyDict, vessel_information |-> EmptyDict,
              source_sheet |-> NoneV, raw_notes_data |-> <<>>]
        ELSE LET notes_sheet == data[n].cells
                 table == find_notes_structure(notes_sheet)
             IN  [weather_conditions |-> extract_weather_conditions(notes_sheet, table),
                  pumping_data |-> extract_pumping_data(notes_sheet, table),
                  remarks_and_notes |-> extract_remarks_and_notes(notes_sheet),
                  vessel_information |-> extract_vessel_information(notes_sheet),
                  source_sheet |-> StrV(data[n].name),
                  raw_notes_data |-> notes_sheet,
                  timesheet_header |-> extract_timesheet_header(notes_sheet),
                  table_structure |-> table]

----------------------------------------------------------------------------
(* The documents: cellmaps as create_cellmap_from_excel builds them, sheet  *)
(* by sheet, each sheet row by row and column by column                     *)

MaxRows == 3

Cell(ref, val) == [ref |-> ref, val |-> val]
Sheet(name, cells) == [name |-> name, cells |-> cells]

\* the rows a timesheet sheet is made of: <<column, value>> pairs
RowKinds ==
    { << <<"A", StrV("Event")>>, <<"B", StrV("Date")>>, <<"C", StrV("Time")>> >>,
      << <<"A", StrV("Date")>>, <<"B", StrV("Time")>>, <<"C", StrV("Event")>> >>,
      << <<"A", StrV("DATE")>>, <<"B", StrV("HRS")>>, <<"C", StrV(" EVENT ")>> >>,
      << <<"A", StrV("Loading commenced")>>, <<"B", StrV("2024-01-01")>>,
         <<"C", StrV("0800")>> >>,
      << <<"A", StrV("Sampling completed")>>, <<"B", StrV("2024-01-01")>>,
         <<"C", StrV("0900")>> >>,
      << <<"A", StrV("2024-01-02 00:00:00")>>, <<"B", StrV("21:30")>>,
         <<"C", StrV("Barge alongside tank 3")>> >>,
      << <<"A", StrV(" ")>>, <<"B", StrV("2024-01-01")>>, <<"C", StrV("0900")>> >>,
      << <<"A", NumV(0)>>, <<"B", StrV("2024-01-01")>>, <<"C", NumV(930)>> >>,
      << <<"B", StrV("2024-01-01")>>, <<"C", StrV("0900")>> >> }

\* the cells of one row
RowCellsAt(kind, r) == [k \in 1..Len(kind) |-> Cell(CellRef(kind[k][1], r), kind[k][2])]

RECURSIVE RowsFrom(_, _)
\* the cells of the rows i.. of a sheet whose rows are of the kinds given; the
\* first row of the sheet is row 5
RowsFrom(kinds, i) ==
    IF i > Len(kinds) THEN <<>>
    ELSE RowCellsAt(kinds[i], i + 4) \o RowsFrom(kinds, i + 1)

\* a second timesheet, in the other layout
SecondSheet ==
    Sheet("Hoja2",
          << Cell("A1", StrV("DATE")), Cell("B1", StrV("HRS")), Cell("C1", StrV("EVENT")),
             Cell("A2", StrV("2024-01-03")), Cell("B2", NumV(7)),
             Cell("C2", StrV("Descarga completada")) >>)

TimesheetDocs ==
    {<<Sheet("TIMESHEET", RowsFrom(kinds, 1))>> : kinds \in [1..MaxRows -> RowKinds]}

\* label cells and their neighbours, on a cover sheet and on a notes sheet
LabelTexts ==
    {"Terminal", " Terminal ", "Terminal:", "Terminal: T", "Terminal: ACME Port",
     "Vessel: M/T Product Star"}
LabelCells == {<<"A", 3>>, <<"B", 3>>, <<"A", 16>>}
EarlierCells == {NoneV, StrV("Terminal: Early")}

\* what the k-th neighbour of a label may hold: nothing, a value the search
\* passes over (one character, or a label), or a value of its own
NeighbourValues(k) ==
    {NoneV,
     IF k % 2 = 1 THEN StrV("X") ELSE StrV("Date"),
     IF k = 4 THEN StrV("ACME Port") ELSE StrV("Port " \o ToString(k))}

\* the cells present among the candidates given
Present(cells) == LET Is(c) == c.val # NoneV IN SelectSeq(cells, Is)

\* the block: an optional earlier cell A1, the label cell at column col of row
\* r, its three right neighbours and the cell below it
LabelBlock(early, col, r, text, nb) ==
    Present(<< Cell("A1", early),
               Cell(CellRef(col, r), StrV(text)),
               Cell(CellRef(ChrOrdPlus(col, 1), r), nb[1]),
               Cell(CellRef(ChrOrdPlus(col, 2), r), nb[2]),
               Cell(CellRef(ChrOrdPlus(col, 3), r), nb[3]),
               Cell(CellRef(col, r + 1), nb[4]) >>)

LabelBlocks ==
    {LabelBlock(early, lc[1], lc[2], text, nb) :
        early \in EarlierCells, lc \in LabelCells, text \in LabelTexts,
        nb \in {f \in [1..4 -> UNION {NeighbourValues(k) : k \in 1..4}] :
                   \A k \in 1..4 : f[k] \in NeighbourValues(k)}}

\* a report: the block on the cover sheet and on the notes sheet, which also
\* holds the notes table
FieldDocs ==
    {<< Sheet("Cubierta", b),
        Sheet("TIME SHEET", b \o << Cell("A20", StrV("Special Notes")),
                                    Cell("G20", StrV("General Notes")) >>) >> :
        b \in LabelBlocks}

\* a full report
FullReport ==
    << Sheet("Cover",
             << Cell("A2", StrV("INSPECTION REPORT")),
                Cell("A4", StrV("M/T \"HAFNIA\" to Barge 'AZ 108' Voy # 12")),
                Cell("A5", StrV("5.000,5 CBM Gas Oil BOL 04")),
                Cell("A6", StrV("ACME & CO - (Ref. # AB-1)")),
                Cell("A8", StrV("Terminal: ACME Port")),
                Cell("A9", StrV("Inspector:")) >>),
       Sheet("TIME SHEET",
             << Cell("B3", StrV("Vessel")), Cell("D3", StrV("HAFNIA")),
                Cell("A5", StrV("Event")), Cell("B5", StrV("Date")),
                Cell("C5", StrV("Time")),
                Cell("A6", StrV("Unloading completed")),
                Cell("B6", StrV("2024-01-01")), Cell("C6", NumV(2130)),
                Cell("A10", StrV("Special Notes")), Cell("G10", StrV("General Notes")),
                Cell("A11", StrV("Rain X")), Cell("B11", StrV("Calm")),
                Cell("G11", StrV("Pumping Time")), Cell("H11", StrV("Pumping Rate")),
                Cell("G12", StrV("-12,5 hrs")), Cell("H12", StrV("n/a")),
                Cell("A13", StrV("C.- Remarks: none")),
                Cell("A14", NumV(-250)),
                Cell("A15", StrV("PR-INS-01 Standard Procedure for Surveyors")) >>) >>

\* documents with no recognisable structure, and documents with a cell whose
\* reference has no row number
OtherDocs ==
    { << >>,
      << Sheet("Sheet1", << >>) >>,
      << Sheet("Sheet1", << Cell("A1", StrV("hello")), Cell("B2", NumV(5)) >>) >>,
      << Sheet("Sheet1", << Cell("A1", StrV("Special")), Cell("B1", StrV("Notes")) >>) >>,
      << Sheet("Cubierta", << Cell("A2", StrV("DIESEL / GASOLINE 1000 MT")) >>) >>,
      << Sheet("Hoja1", << Cell("A2", StrV("Weather conditions: calm")) >>),
         Sheet("Hoja2", << Cell("A1", StrV("General Notes")),
                           Cell("A2", StrV("Pumping Time")) >>) >>,
      << Sheet("Sheet1", << Cell("A1", StrV("Special")), Cell("B1", StrV("Notes")) >>),
         Sheet("Sheet2", << Cell("A1", StrV("Special Notes")) >>) >>,
      << Sheet("Sheet1", << Cell("A", StrV("Event")), Cell("B1", StrV("Date")) >>) >>,
      << Sheet("Sheet1", << Cell("A", StrV("General Notes")) >>) >>,
      << Sheet("Sheet1", << Cell("A1", StrV("Event")), Cell("B1", StrV("Date")) >>) >>,
      << Sheet("Cover", << Cell("A1", StrV("Terminal")),
                           Cell("A2", StrV("ACME Port")) >>) >>,
      << Sheet("TIMESHEET", RowsFrom(<<CHOOSE k \in RowKinds : k[1][2] = StrV("Event")>>, 1)),
         SecondSheet >>,
      \* a timesheet with a stray cell whose reference has no row number
      << Sheet("TIMESHEET",
               << Cell("A5", StrV("Event")), Cell("B5", StrV("Date")),
                  Cell("C5", StrV("Time")),
                  Cell("A6", StrV("Loading commenced")),
                  Cell("B6", StrV("2024-01-01")), Cell("C6", StrV("0800")),
                  Cell("Z", StrV("stray")) >>) >>,
      \* a timesheet followed by a sheet with such a cell
      << SecondSheet,
         Sheet("Hoja3", << Cell("A", StrV("Event")), Cell("B1", StrV("Date")) >>) >>,
      \* a notes sheet with a label cell in a two-letter column
      << Sheet("TIME SHEET",
               << Cell("A1", StrV("Vessel: HAFNIA")), Cell("AA3", StrV("Terminal")),
                  Cell("A13", StrV("C.- Remarks: none")),
                  Cell("A20", StrV("Special Notes")) >>) >>,
      \* header words spread over two rows, then a header row with two date cells
      << Sheet("TIMESHEET",
               << Cell("A5", StrV("Event")), Cell("B6", StrV("Date")),
                  Cell("C6", StrV("Time")),
                  Cell("A8", StrV("Event")), Cell("B8", StrV("Date")),
                  Cell("C8", StrV("Time")), Cell("D8", StrV("Date")),
                  Cell("A9", StrV("Loading commenced")),
                  Cell("B9", StrV("2024-01-01")), Cell("C9", StrV("0800")),
                  Cell("D9", StrV("2024-01-02")) >>) >>,
      \* the second layout away from column A
      << Sheet("TIMESHEET",
               << Cell("B5", StrV("Date")), Cell("C5", StrV("HRS")),
                  Cell("D5", StrV("Event")),
                  Cell("B6", StrV("2024-01-01")), Cell("C6", StrV("0800")),
                  Cell("D6", StrV("Loading commenced")) >>) >>,
      \* a header row with two time cells and two event cells
      << Sheet("TIMESHEET",
               << Cell("A5", StrV("DATE")), Cell("B5", StrV("Time")),
                  Cell("C5", StrV("HRS")), Cell("D5", StrV("Event")),
                  Cell("E5", StrV("Event")),
                  Cell("A6", StrV("2024-01-01")), Cell("B6", StrV("0800")),
                  Cell("C6", StrV("0815")), Cell("D6", StrV("Loading commenced")),
                  Cell("E6", StrV("Sampling completed")) >>) >>,
      FullReport }

\* notes sheets with pumping data: the notes table header or none, the label
\* "Pumping Time" or none, the value cell below it, and two more cells that
\* may hold bare numbers
PumpingValues == {NoneV, StrV("-12,5 hrs"), StrV("n/a"), NumV(-7)}
FirstBare == {NoneV, NumV(-30), StrV("-250"), StrV("-75")}
SecondBare == {NoneV, StrV("-20"), NumV(-300)}

PumpingDocs ==
    {<< Sheet("NOTES",
              Present(<< Cell("G10", table), Cell("G11", label), Cell("G12", v),
                         Cell("A13", b1), Cell("A14", b2) >>)) >> :
        table \in {NoneV, StrV("General Notes")},
        label \in {NoneV, StrV("Pumping Time")},
        v \in PumpingValues, b1 \in FirstBare, b2 \in SecondBare}

Documents == TimesheetDocs \cup FieldDocs \cup PumpingDocs \cup OtherDocs

----------------------------------------------------------------------------
(* upload_file: header, events, notes; then the analysis of the events      *)

Unset == [t |-> "unset"]

\* no upload request is being handled, no file is stored, and the assistant
\* is as MaritimeChatbot.__init__ leaves it
Idle ==
    /\ uploads = EmptyDict
    /\ output = EmptyDict
    /\ requests = <<>>
    /\ conversation_history = <<>>
    /\ current_data_context = NoneV
    /\ current_filename = NoneV
    /\ data_summary = Unset
    /\ now = 0
    /\ messages = <<>>

Init ==
    /\ grid \in Documents
    /\ pc = "header"
    /\ header_data = Unset
    /\ all_events = <<>>
    /\ sheet_idx = 0
    /\ header_sections = <<>>
    /\ sec_idx = 0
    /\ row = 0
    /\ events = <<>>
    /\ notes_data = Unset
    /\ categories = Unset
    /\ errors = {}
    /\ arg = Unset
    /\ ret = Unset
    /\ Idle

\* header_data = extract_report_header(str(cellmap_output))
ExtractHeader ==
    /\ pc = "header"
    /\ header_data' \in ReportHeaders(grid)
    /\ sheet_idx' = 1
    /\ pc' = "events"
    /\ UNCHANGED <<grid, all_events, header_sections, sec_idx, row, events,
                   notes_data, categories, errors, arg, ret,
                   server, assistant>>

\* for sheet_name, sheet_data in data.items(): find_timesheet_headers
FindHeaders ==
    /\ pc = "events"
    /\ sheet_idx <= Len(grid)
    /\ ~find_timesheet_headers_raises(grid[sheet_idx].cells)
    /\ header_sections' = find_timesheet_headers(grid[sheet_idx].cells)
    /\ sec_idx' = 1
    /\ pc' = "sections"
    /\ UNCHANGED <<grid, header_data, all_events, sheet_idx, row, events,
                   notes_data, categories, errors, arg, ret,
                   server, assistant>>

\* find_timesheet_headers raises: upload_file's except stores events = []
FindHeadersRaises ==
    /\ pc = "events"
    /\ sheet_idx <= Len(grid)
    /\ find_timesheet_headers_raises(grid[sheet_idx].cells)
    /\ all_events' = <<>>
    /\ errors' = errors \cup {"events"}
    /\ pc' = "notes"
    /\ UNCHANGED <<grid, header_data, sheet_idx, header_sections, sec_idx, row,
                   events, notes_data, categories, arg, ret,
                   server, assistant>>

\* for i, section in enumerate(header_sections): a section starts
BeginSection ==
    /\ pc = "sections"
    /\ sec_idx <= Len(header_sections)
    /\ row' = header_sections[sec_idx].start_row
    /\ events' = <<>>
    /\ pc' = "walk"
    /\ UNCHANGED <<grid, header_data, all_events, sheet_idx, header_sections,
                   sec_idx, notes_data, categories, errors, arg, ret,
                   server, assistant>>

\* one iteration of the while loop that appends an event
WalkEmit ==
    /\ pc = "walk"
    /\ ~WalkStops(grid[sheet_idx].cells, header_sections[sec_idx], row)
    /\ events' = Append(events, EventOf(grid[sheet_idx].cells,
                                        header_sections[sec_idx], row))
    /\ row' = row + 1
    /\ UNCHANGED <<grid, pc, header_data, all_events, sheet_idx, header_sections,
                   sec_idx, notes_data, categories, errors, arg, ret,
                   server, assistant>>

\* the iteration that breaks: the section's events are tagged and added
WalkBreak ==
    /\ pc = "walk"
    /\ WalkStops(grid[sheet_idx].cells, header_sections[sec_idx], row)
    /\ all_events' = all_events \o Tagged(events, grid[sheet_idx].name, sec_idx)
    /\ sec_idx' = sec_idx + 1
    /\ pc' = "sections"
    /\ UNCHANGED <<grid, header_data, sheet_idx, header_sections, row, events,
                   notes_data, categories, errors, arg, ret,
                   server, assistant>>

\* the sections of the sheet are done: the next sheet
NextSheet ==
    /\ pc = "sections"
    /\ sec_idx > Len(header_sections)
    /\ sheet_idx' = sheet_idx + 1
    /\ pc' = "events"
    /\ UNCHANGED <<grid, header_data, all_events, header_sections, sec_idx, row,
                   events, notes_data, categories, errors, arg, ret,
                   server, assistant>>

\* the loop over the sheets ends: return all_events
EventsDone ==
    /\ pc = "events"
    /\ sheet_idx > Len(grid)
    /\ pc' = "notes"
    /\ UNCHANGED <<grid, header_data, all_events, sheet_idx, header_sections,
                   sec_idx, row, events, notes_data, categories, errors, arg, ret,
                   server, assistant>>

\* notes_data = extract_operational_notes(str(cellmap_output))
ExtractNotes ==
    /\ pc = "notes"
    /\ ~extract_operational_notes_raises(grid)
    /\ notes_data' = extract_operational_notes(grid)
    /\ pc' = "uploaded"
    /\ UNCHANGED <<grid, header_data, all_events, sheet_idx, header_sections,
                   sec_idx, row, events, categories, errors, arg, ret,
                   server, assistant>>

\* extract_operational_notes raises: the except stores notes_data = {}
ExtractNotesRaises ==
    /\ pc = "notes"
    /\ extract_operational_notes_raises(grid)
    /\ notes_data' = EmptyDict
    /\ errors' = errors \cup {"notes"}
    /\ pc' = "uploaded"
    /\ UNCHANGED <<grid, header_data, all_events, sheet_idx, header_sections,
                   sec_idx, row, events, categories, arg, ret,
                   server, assistant>>

\* /analyze: the stored events, when there are any, are categorized
Analyze ==
    /\ pc = "uploaded"
    /\ all_events # <<>>
    /\ categories' = categorize_events(all_events)
    /\ pc' = "analyzed"
    /\ UNCHANGED <<grid, header_data, all_events, sheet_idx, header_sections,
                   sec_idx, row, events, notes_data, errors, arg, ret,
                   server, assistant>>

Next ==
    \/ ExtractHeader
    \/ FindHeaders
    \/ FindHeadersRaises
    \/ BeginSection
    \/ WalkEmit
    \/ WalkBreak
    \/ NextSheet
    \/ EventsDone
    \/ ExtractNotes
    \/ ExtractNotesRaises
    \/ Analyze

Spec == Init /\ [][Next]_vars

\* extract_timesheet_events_from_data called on its own. What
\* find_timesheet_headers returns for each sheet is found once, in the
\* initial state, and kept in arg: the sections, or that it raises.
SectionsOf(data) ==
    [s \in 1..Len(data) |->
        IF find_timesheet_headers_raises(data[s].cells)
        THEN [raises |-> TRUE, sections |-> <<>>]
        ELSE [raises |-> FALSE,
              sections |-> find_timesheet_headers(data[s].cells)]]

InitEvents ==
    /\ grid \in Documents
    /\ pc = "events"
    /\ header_data = Unset
    /\ all_events = <<>>
    /\ sheet_idx = 1
    /\ header_sections = <<>>
    /\ sec_idx = 0
    /\ row = 0
    /\ events = <<>>
    /\ notes_data = Unset
    /\ categories = Unset
    /\ errors = {}
    /\ arg = SectionsOf(grid)
    /\ ret = Unset
    /\ Idle

\* FindHeaders, with the sections of the sheet taken from arg
FindHeadersFound ==
    /\ pc = "events"
    /\ sheet_idx <= Len(grid)
    /\ ~arg[sheet_idx].raises
    /\ header_sections' = arg[sheet_idx].sections
    /\ sec_idx' = 1
    /\ pc' = "sections"
    /\ UNCHANGED <<grid, header_data, all_events, sheet_idx, row, events,
                   notes_data, categories, errors, arg, ret,
                   server, assistant>>

\* FindHeadersRaises, with the outcome taken from arg
FindHeadersFails ==
    /\ pc = "events"
    /\ sheet_idx <= Len(grid)
    /\ arg[sheet_idx].raises
    /\ all_events' = <<>>
    /\ errors' = errors \cup {"events"}
    /\ pc' = "notes"
    /\ UNCHANGED <<grid, header_data, sheet_idx, header_sections, sec_idx, row,
                   events, notes_data, categories, arg, ret,
                   server, assistant>>

NextEvents ==
    \/ FindHeadersFound
    \/ FindHeadersFails
    \/ BeginSection
    \/ WalkEmit
    \/ WalkBreak
    \/ NextSheet
    \/ EventsDone

\* the call runs until it returns: a step that can be taken is taken
SpecLive == InitEvents /\ [][NextEvents]_vars /\ WF_vars(NextEvents)

\* the same document is uploaded again: the records of the first upload are
\* kept in arg and upload_file starts anew on the grid
UploadAgain ==
    /\ pc = "uploaded"
    /\ arg = Unset
    /\ arg' = [grid |-> grid, header_data |-> header_data,
               events |-> all_events, notes_data |-> notes_data]
    /\ pc' = "header"
    /\ header_data' = Unset
    /\ all_events' = <<>>
    /\ sheet_idx' = 0
    /\ header_sections' = <<>>
    /\ sec_idx' = 0
    /\ row' = 0
    /\ events' = <<>>
    /\ notes_data' = Unset
    /\ errors' = {}
    /\ UNCHANGED <<grid, categories, ret,
                   server, assistant>>

NextTwice == Next \/ UploadAgain

SpecTwice == Init /\ [][NextTwice]_vars

----------------------------------------------------------------------------
(* format_time and _categorize_events called on their own                   *)

MaxTimeLen == 4
MaxWords == 2

TimeChars == {"0", "1", "2", "3", "7", "9", ":", " ", "a"}

RECURSIVE StringsUpTo(_, _)
\* the strings of at most n characters of chars
StringsUpTo(chars, n) ==
    IF n = 0 THEN {""}
    ELSE LET shorter == StringsUpTo(chars, n - 1)
         IN  shorter \cup {t \o c : t \in shorter, c \in chars}

\* what a time cell may hold: nothing, a number, a text
TimeInputs ==
    {NoneV} \cup {NumV(n) : n \in {0, 7, 730, 2130, 12345}}
        \cup {StrV(t) : t \in StringsUpTo(TimeChars, MaxTimeLen)}
        \cup {StrV("09:15"), StrV(" 09:15 "), StrV("12345")}

ClassifierWords ==
    {"tank", "barge", "Loading", "commenced", "Sampling", "completed", "Unload",
     "Descarga", "cleaning", "INSPECCIÓN", "certificate", "Tug", "xyz"}

RECURSIVE TextsUpTo(_)
\* the texts of at most n words
TextsUpTo(n) ==
    IF n = 0 THEN {""}
    ELSE LET shorter == TextsUpTo(n - 1)
         IN  shorter \cup ClassifierWords
                \cup {t \o " " \o w : t \in shorter \ {""}, w \in ClassifierWords}

\* an event dict with the text given
EventWith(text) ==
    [Event |-> text, Date |-> StrV("2024-01-01"), Time |-> StrV("08:00"),
     Section |-> "english", Row |-> 6, Sheet |-> "TIMESHEET", Section_Number |-> 1]

\* the variables of upload_file, when it is not running
NoUpload ==
    /\ grid = <<>>
    /\ header_data = Unset
    /\ all_events = <<>>
    /\ sheet_idx = 0
    /\ header_sections = <<>>
    /\ sec_idx = 0
    /\ row = 0
    /\ events = <<>>
    /\ notes_data = Unset
    /\ categories = Unset
    /\ errors = {}
    /\ Idle

InitTime ==
    /\ NoUpload
    /\ pc = "format_time"
    /\ arg \in TimeInputs
    /\ ret = Unset

\* ret = format_time(arg)
FormatTime ==
    /\ pc = "format_time"
    /\ ret' = format_time(arg)
    /\ pc' = "time_formatted"
    /\ UNCHANGED <<grid, header_data, all_events, sheet_idx, header_sections,
                   sec_idx, row, events, notes_data, categories, errors, arg,
                   server, assistant>>

NextTime == FormatTime

SpecTime == InitTime /\ [][NextTime]_vars

InitClassify ==
    /\ NoUpload
    /\ pc = "categorize"
    /\ arg \in {<<EventWith(text)>> : text \in TextsUpTo(MaxWords)}
    /\ ret = Unset

\* ret = self._categorize_events(arg)
CategorizeEvents ==
    /\ pc = "categorize"
    /\ ret' = categorize_events(arg)
    /\ pc' = "categorized"
    /\ UNCHANGED <<grid, header_data, all_events, sheet_idx, header_sections,
                   sec_idx, row, events, notes_data, categories, errors, arg,
                   server, assistant>>

NextClassify == CategorizeEvents

SpecClassify == InitClassify /\ [][NextClassify]_vars

----------------------------------------------------------------------------
(* The chronological views: _analyze_timeline and                           *)
(* _get_detailed_events_context                                             *)

MaxEvents == 3

\* the characters of dates and times, in code point order
Ascii ==
    " ,-./0123456789:ABCDEFGHIJKLMNOPQRSTUVWXYZabcdefghijklmnopqrstuvwxyz"

Ord(c) == CHOOSE k \in 1..Len(Ascii) : Ch(Ascii, k) = c

RECURSIVE StrLessFrom(_, _, _)
\* a < b of two str, decided from index i on
StrLessFrom(a, b, i) ==
    IF i > Len(b) THEN FALSE
    ELSE IF i > Len(a) THEN TRUE
    ELSE IF Ch(a, i) = Ch(b, i) THEN StrLessFrom(a, b, i + 1)
    ELSE Ord(Ch(a, i)) < Ord(Ch(b, i))

StrLess(a, b) == StrLessFrom(a, b, 1)

\* the index where two keys first differ, 0 when they are equal
FirstDifference(k1, k2) ==
    IF k1 = k2 THEN 0
    ELSE CHOOSE i \in 1..Len(k1) :
            k1[i] # k2[i] /\ \A j \in 1..(i - 1) : k1[j] = k2[j]

\* k1 < k2 raises TypeError: the keys first differ where one holds None
CompareRaises(k1, k2) ==
    LET i == FirstDifference(k1, k2)
    IN  i # 0 /\ (k1[i] = NoneV \/ k2[i] = NoneV)

\* k1 < k2 of two tuples of str
KeyLess(k1, k2) ==
    LET i == FirstDifference(k1, k2)
    IN  i # 0 /\ StrLess(k1[i].s, k2[i].s)

\* the pair put into a sorted list before the first pair with a greater key
Insert(sorted, p) ==
    LET later == {i \in 1..Len(sorted) : KeyLess(p.key, sorted[i].key)}
    IN  IF later = {} THEN Append(sorted, p)
        ELSE LET i == CHOOSE i \in later : \A j \in later : i <= j
             IN  SubSeq(sorted, 1, i - 1) \o <<p>> \o SubSeq(sorted, i, Len(sorted))

RECURSIVE SortedUpTo(_, _)
SortedUpTo(pairs, n) ==
    IF n = 0 THEN <<>> ELSE Insert(SortedUpTo(pairs, n - 1), pairs[n])

\* list.sort(key=...) and sorted(..., key=...): stable, on the keys given
StableSort(pairs) ==
    LET sorted == SortedUpTo(pairs, Len(pairs))
    IN  [k \in 1..Len(sorted) |-> sorted[k].item]

\* the sort compares two keys that cannot be compared
SortRaises(pairs) ==
    \E i, j \in 1..Len(pairs) : CompareRaises(pairs[i].key, pairs[j].key)

\* self._analyze_timeline(events)
analyze_timeline(evs) ==
    LET Dated(e) == Truthy(e.Date) /\ e.Event # ""
        kept == SelectSeq(evs, Dated)
        timeline ==
            StableSort([k \in 1..Len(kept) |->
                [key |-> <<kept[k].Date>>,
                 item |-> [datetime |-> Strip(PyStr(kept[k].Date) \o " "
                                                \o PyStr(kept[k].Time)),
                           event |-> kept[k].Event,
                           date |-> kept[k].Date,
                           time |-> kept[k].Time]]])
    IN  [chronological_events |-> timeline,
         first_event |-> IF timeline = <<>> THEN NoneV ELSE timeline[1],
         last_event |-> IF timeline = <<>> THEN NoneV ELSE timeline[Len(timeline)],
         total_timeline_events |-> Len(timeline)]

\* the keys (x.get('Date', ''), x.get('Time', '')) of the events
DateTimeKeys(evs) ==
    [k \in 1..Len(evs) |-> [key |-> <<evs[k].Date, evs[k].Time>>, item |-> evs[k]]]

\* sorted(events, key=lambda x: (x.get('Date', ''), x.get('Time', '')))
sorted_events(evs) == StableSort(DateTimeKeys(evs))

ViewDates == {NoneV, StrV("2024-01-01"), StrV("2024-01-02")}
ViewTimes == {NoneV, StrV("08:00"), StrV("10:30")}

\* the event of row r with the date and time given
EventAt(r, date, time) ==
    [Event |-> "Loading commenced", Date |-> date, Time |-> time,
     Section |-> "english", Row |-> r, Sheet |-> "TIMESHEET", Section_Number |-> 1]

RECURSIVE EventLists(_)
\* the event lists of at most n events, in emission order
EventLists(n) ==
    IF n = 0 THEN {<<>>}
    ELSE LET shorter == EventLists(n - 1)
         IN  shorter \cup
                {Append(l, EventAt(Len(l) + 6, d, t)) :
                    l \in {x \in shorter : Len(x) = n - 1},
                    d \in ViewDates, t \in ViewTimes}

InitViews ==
    /\ NoUpload
    /\ pc = "views"
    /\ arg \in EventLists(MaxEvents)
    /\ ret = Unset

\* ret = self._analyze_timeline(arg)
AnalyzeTimeline ==
    /\ pc = "views"
    /\ ret' = analyze_timeline(arg)
    /\ pc' = "timeline"
    /\ UNCHANGED <<grid, header_data, all_events, sheet_idx, header_sections,
                   sec_idx, row, events, notes_data, categories, errors, arg,
                   server, assistant>>

\* _get_detailed_events_context: nothing without events, else the events
\* sorted by (Date, Time)
DetailedEventsContext ==
    /\ pc = "views"
    /\ ~SortRaises(DateTimeKeys(arg))
    /\ ret' = sorted_events(arg)
    /\ pc' = "context"
    /\ UNCHANGED <<grid, header_data, all_events, sheet_idx, header_sections,
                   sec_idx, row, events, notes_data, categories, errors, arg,
                   server, assistant>>

\* sorted raises TypeError and chat returns the error
DetailedEventsContextRaises ==
    /\ pc = "views"
    /\ SortRaises(DateTimeKeys(arg))
    /\ errors' = errors \cup {"chat"}
    /\ pc' = "context"
    /\ UNCHANGED <<grid, header_data, all_events, sheet_idx, header_sections,
                   sec_idx, row, events, notes_data, categories, arg, ret,
                   server, assistant>>

NextViews ==
    \/ AnalyzeTimeline
    \/ DetailedEventsContext
    \/ DetailedEventsContextRaises

SpecViews == InitViews /\ [][NextViews]_vars

----------------------------------------------------------------------------
(* format_date and split_cell_reference called on their own                 *)

MaxDateLen == 3

DateChars == {"0", "1", "-", ":", " ", "J"}

\* what a date cell may hold: nothing, a number, a text
DateInputs ==
    {NoneV} \cup {NumV(n) : n \in {0, 45292}}
        \cup {StrV(t) : t \in StringsUpTo(DateChars, MaxDateLen)}
        \cup {StrV("2024-01-01 00:00:00"), StrV("2024-01-01"), StrV("01 Jan 2024"),
              StrV(" 2024-01-01 "), StrV("2024-01-01  08:30"), StrV("1 Jan 10:30")}

InitDate ==
    /\ NoUpload
    /\ pc = "format_date"
    /\ arg \in DateInputs
    /\ ret = Unset

\* ret = format_date(arg)
FormatDate ==
    /\ pc = "format_date"
    /\ ret' = format_date(arg)
    /\ pc' = "date_formatted"
    /\ UNCHANGED <<grid, header_data, all_events, sheet_idx, header_sections,
                   sec_idx, row, events, notes_data, categories, errors, arg,
                   server, assistant>>

NextDate == FormatDate

SpecDate == InitDate /\ [][NextDate]_vars

MaxRefLen == 3

RefChars == {"A", "b", "0", "1", "5", "$"}

\* cell references, well formed or not
RefInputs == StringsUpTo(RefChars, MaxRefLen) \cup {"AA10", "A05", "B12"}

InitRef ==
    /\ NoUpload
    /\ pc = "split_cell_reference"
    /\ arg \in RefInputs
    /\ ret = Unset

\* ret = split_cell_reference(arg)
SplitCellReference ==
    /\ pc = "split_cell_reference"
    /\ ~split_raises(arg)
    /\ ret' = split_cell_reference(arg)
    /\ pc' = "split"
    /\ UNCHANGED <<grid, header_data, all_events, sheet_idx, header_sections,
                   sec_idx, row, events, notes_data, categories, errors, arg,
                   server, assistant>>

\* int('') raises ValueError and nothing is returned
SplitCellReferenceRaises ==
    /\ pc = "split_cell_reference"
    /\ split_raises(arg)
    /\ errors' = errors \cup {"ValueError"}
    /\ pc' = "split"
    /\ UNCHANGED <<grid, header_data, all_events, sheet_idx, header_sections,
                   sec_idx, row, events, notes_data, categories, ret, arg,
                   server, assistant>>

NextRef == SplitCellReference \/ SplitCellReferenceRaises

SpecRef == InitRef /\ [][NextRef]_vars

MaxRoundRow == 12

\* the one-letter columns
ColumnLetters == {Ch(UpperChars, i) : i \in 1..Len(UpperChars)}

InitRound ==
    /\ NoUpload
    /\ pc = "build_ref"
    /\ arg \in [col : ColumnLetters, row : 1..MaxRoundRow]
    /\ ret = Unset

\* event_cell = f"{section['event_col']}{row}"
BuildRef ==
    /\ pc = "build_ref"
    /\ ret' = CellRef(arg.col, arg.row)
    /\ pc' = "ref_built"
    /\ UNCHANGED <<grid, header_data, all_events, sheet_idx, header_sections,
                   sec_idx, row, events, notes_data, categories, errors, arg,
                   server, assistant>>

\* split_cell_reference of the reference built
ParseRef ==
    /\ pc = "ref_built"
    /\ IF split_raises(ret)
       THEN errors' = errors \cup {"ValueError"} /\ ret' = Unset
       ELSE errors' = errors /\ ret' = split_cell_reference(ret)
    /\ pc' = "ref_parsed"
    /\ UNCHANGED <<grid, header_data, all_events, sheet_idx, header_sections,
                   sec_idx, row, events, notes_data, categories, arg,
                   server, assistant>>

NextRound == BuildRef \/ ParseRef

SpecRound == InitRound /\ [][NextRound]_vars

----------------------------------------------------------------------------
(* The two consumers of the event categories: the analyzer's                *)
(* _categorize_events and the assistant's _prepare_data_summary             *)

\* the pattern lists of _prepare_data_summary, in the order of its if/elif
SummaryPatterns ==
    << [category |-> "Alije/Transferencia", keywords |->
          <<"barges", "barge", "cast off", "approach", "line on board",
            "all fast", "hoses connected", "alongside", "mooring",
            "unmoor", "berth", "departure", "first line", "last line",
            "ship to ship", "transfer", "barcazas", "barcaza", "atraque",
            "desatraque", "amarre", "desamarre", "aproximación",
            "acercamiento", "transferencia", "alije",
            "mangueras conectadas", "primera línea", "última línea",
            "buque a buque">>],
       [category |-> "Carga", keywords |->
          <<"loading", "load", "cargo loading", "start loading",
            "finish loading", "loading completed", "loading operation",
            "carga", "cargar", "cargando", "inicio carga", "fin carga",
            "carga completada", "operación de carga">>],
       [category |-> "Descarga", keywords |->
          <<"discharge", "unload", "unloading", "cargo discharge",
            "discharge completed", "descarga", "descargar", "descargando",
            "descarga completada">>],
       [category |-> "Muestreo", keywords |->
          <<"sample", "sampling", "samples taken", "sample collection",
            "laboratory sample", "muestra", "muestras", "muestreo",
            "toma de muestras", "recolección muestras",
            "muestra laboratorio">>],
       [category |-> "Inspección", keywords |->
          <<"inspection", "inspections", "survey", "check", "verification",
            "examine", "tank inspection", "cargo inspection",
            "safety inspection", "inspección", "inspecciones",
            "verificación", "revisión", "chequeo", "inspección tanques",
            "inspección carga", "inspección seguridad">>],
       [category |-> "Operaciones de Tanque", keywords |->
          <<"tank", "tanks", "cargo tank", "pump", "pumping", "valve",
            "pipeline", "manifold", "cargo system", "tank cleaning",
            "tank preparation", "tanque", "tanques", "tanque carga",
            "bomba", "bombeo", "válvula", "tubería", "colector",
            "sistema carga", "limpieza tanque", "preparación tanque">>],
       [category |-> "Llegada/Salida", keywords |->
          <<"arrival", "arrive", "departure", "depart", "eta", "etd",
            "pilot on board", "pilot off", "tug", "tugboat", "escort",
            "llegada", "llegar", "salida", "salir", "práctico a bordo",
            "práctico fuera", "remolcador", "escolta">>] >>

RECURSIVE FirstSummaryType(_, _)
\* the if/elif chain from its i-th branch on; the else branch counts "Otros"
FirstSummaryType(event_text, i) ==
    IF i > Len(SummaryPatterns) THEN "Otros"
    ELSE IF AnyKeyword(event_text, SummaryPatterns[i].keywords)
         THEN SummaryPatterns[i].category
         ELSE FirstSummaryType(event_text, i + 1)

RECURSIVE EventTypesUpTo(_, _)
\* event_types after the first n events
EventTypesUpTo(evs, n) ==
    IF n = 0 THEN EmptyDict
    ELSE LET prev == EventTypesUpTo(evs, n - 1)
             type == FirstSummaryType(Lower(evs[n].Event), 1)
         IN  Put(prev, type, (IF type \in DOMAIN prev THEN prev[type] ELSE 0) + 1)

\* the event statistics of the summary
prepare_data_summary(evs) ==
    [total_events |-> Len(evs), event_types |-> EventTypesUpTo(evs, Len(evs))]

\* every keyword of the analyzer's lists
AnalyzerKeywords ==
    UNION {{Patterns[i].keywords[k] : k \in 1..Len(Patterns[i].keywords)} :
              i \in 1..Len(Patterns)}

\* the event lists given to both consumers: one event whose text is a keyword
\* or a short text, or two events
ConsumerInputs ==
    {<<EventWith(text)>> : text \in AnalyzerKeywords \cup TextsUpTo(MaxWords)}
        \cup {<<EventWith(a), EventWith(b)>> :
                 a, b \in {"Loading commenced", "tank cleaning", "Tug fast", "Nothing"}}

InitConsumers ==
    /\ NoUpload
    /\ pc = "consumers"
    /\ arg \in ConsumerInputs
    /\ ret = Unset

\* categories = analyzer._categorize_events(events), as analyze does
CategorizeForAnalysis ==
    /\ pc = "consumers"
    /\ categories' = categorize_events(arg)
    /\ pc' = "analysis"
    /\ UNCHANGED <<grid, header_data, all_events, sheet_idx, header_sections,
                   sec_idx, row, events, notes_data, errors, arg, ret,
                   server, assistant>>

\* data_summary = self._prepare_data_summary(events, ...), as
\* load_data_context does
PrepareDataSummary ==
    /\ pc = "analysis"
    /\ ret' = prepare_data_summary(arg)
    /\ pc' = "summary"
    /\ UNCHANGED <<grid, header_data, all_events, sheet_idx, header_sections,
                   sec_idx, row, events, notes_data, categories, errors, arg,
                   server, assistant>>

NextConsumers == CategorizeForAnalysis \/ PrepareDataSummary

SpecConsumers == InitConsumers /\ [][NextConsumers]_vars

----------------------------------------------------------------------------
(* The row windows of the pumping scan and of the weather scan              *)

\* the row of the notes table header in the sheets below
TableRow == 10

\* where a pumping label may stand: inside the window, on its edges, outside
LabelColumns == {"F", "G", "P", "Q"}
LabelOffsets == {0, 1, 14, 15, 16}
LabelKinds ==
    {[name |-> "Last Cargo", value |-> "DIESEL"],
     [name |-> "Pumping Time", value |-> "12 hrs"]}

\* where a weather cell may stand, and what it may read
MarkColumns == {"A", "J", "K"}
MarkOffsets == {0, 1, 9, 10, 11}
MarkTexts == {"Rain X", "Calm X", "Calm"}

NoPlace == [col |-> "", off |-> 0]

\* a notes sheet: the table header or none, a label with its value below or
\* none, a weather cell or none
WindowSheet(table, label, lp, mark, mp) ==
    Present(<< Cell(CellRef("B", TableRow), table),
               Cell(CellRef(lp.col, TableRow + lp.off),
                    IF lp = NoPlace THEN NoneV ELSE StrV(label.name)),
               Cell(CellRef(lp.col, TableRow + lp.off + 1),
                    IF lp = NoPlace THEN NoneV ELSE StrV(label.value)),
               Cell(CellRef(mp.col, TableRow + mp.off),
                    IF mp = NoPlace THEN NoneV ELSE StrV(mark)) >>)

WindowSheets ==
    {WindowSheet(table, label, lp, mark, mp) :
        table \in {NoneV, StrV("General Notes")},
        label \in LabelKinds,
        lp \in {NoPlace} \cup [col : LabelColumns, off : LabelOffsets],
        mark \in MarkTexts,
        mp \in {NoPlace} \cup [col : MarkColumns, off : MarkOffsets]}

InitWindows ==
    /\ NoUpload
    /\ pc = "window"
    /\ arg \in WindowSheets
    /\ ret = Unset

\* ret = extract_pumping_data(notes_sheet, structure)
ExtractPumping ==
    /\ pc = "window"
    /\ ret' = extract_pumping_data(arg, find_notes_structure(arg))
    /\ pc' = "pumping"
    /\ UNCHANGED <<grid, header_data, all_events, sheet_idx, header_sections,
                   sec_idx, row, events, notes_data, categories, errors, arg,
                   server, assistant>>

\* ret = extract_weather_conditions(notes_sheet, structure)
ExtractWeather ==
    /\ pc = "window"
    /\ ret' = extract_weather_conditions(arg, find_notes_structure(arg))
    /\ pc' = "weather"
    /\ UNCHANGED <<grid, header_data, all_events, sheet_idx, header_sections,
                   sec_idx, row, events, notes_data, categories, errors, arg,
                   server, assistant>>

NextWindows == ExtractPumping \/ ExtractWeather

SpecWindows == InitWindows /\ [][NextWindows]_vars

----------------------------------------------------------------------------
(* Two upload requests handled at the same time. Each request runs          *)
(* upload_file with locals of its own; the folders are shared               *)

RECURSIVE SectionEvents(_, _, _)
\* extract_events_from_section from row r on
SectionEvents(data, section, r) ==
    IF WalkStops(data, section, r) THEN <<>>
    ELSE <<EventOf(data, section, r)>> \o SectionEvents(data, section, r + 1)

RECURSIVE SheetEvents(_, _, _)
\* the events of the sections k.. of a sheet, tagged
SheetEvents(sheet, sections, k) ==
    IF k > Len(sections) THEN <<>>
    ELSE Tagged(SectionEvents(sheet.cells, sections[k], sections[k].start_row),
                sheet.name, k)
            \o SheetEvents(sheet, sections, k + 1)

RECURSIVE EventsFromSheet(_, _)
\* extract_timesheet_events_from_data from the n-th sheet on
EventsFromSheet(data, n) ==
    IF n > Len(data) THEN <<>>
    ELSE SheetEvents(data[n], find_timesheet_headers(data[n].cells), 1)
            \o EventsFromSheet(data, n + 1)

extract_timesheet_events_from_data_raises(data) ==
    \E n \in 1..Len(data) : find_timesheet_headers_raises(data[n].cells)

extract_timesheet_events_from_data(data) == EventsFromSheet(data, 1)

\* the three try blocks of upload_file, each with its except
HeaderOf(content) == ReportHeaders(content)
EventsOf(cellmap) ==
    IF extract_timesheet_events_from_data_raises(cellmap) THEN <<>>
    ELSE extract_timesheet_events_from_data(cellmap)
NotesOf(content) ==
    IF extract_operational_notes_raises(content) THEN EmptyDict
    ELSE extract_operational_notes(content)

\* a file opened for writing and not written yet
Truncated == [t |-> "truncated"]

\* Path(filename).stem
Stem(filename) ==
    LET dots == {i \in 1..Len(filename) : Ch(filename, i) = "."}
    IN  IF dots = {} THEN filename
        ELSE SubSeq(filename, 1, (CHOOSE i \in dots : \A j \in dots : j <= i) - 1)

\* a name that keeps the extension in the stem
WholeName(filename) == filename

\* the files without the one of the name given
Without(files, name) == [n \in DOMAIN files \ {name} |-> files[n]]

ReportA == FullReport

ReportB ==
    << Sheet("Cubierta", << Cell("A2", StrV("DIESEL 1000 MT")) >>),
       Sheet("TIMESHEET",
             << Cell("A5", StrV("Event")), Cell("B5", StrV("Date")),
                Cell("C5", StrV("Time")),
                Cell("A6", StrV("Sampling completed")),
                Cell("B6", StrV("2024-02-02")), Cell("C6", StrV("0900")),
                Cell("A8", StrV("General Notes")) >>) >>

\* the name of the second upload: the same name, the same stem, another stem
SecondNames == {"report.xlsx", "report.xlsm", "other.xlsx"}

Request(filename, file) ==
    [pc |-> "save", filename |-> filename, file |-> file, cellmap |-> Unset,
     header_data |-> Unset, events |-> Unset, notes_data |-> Unset,
     response |-> Unset]

InitConcurrent ==
    /\ grid = <<>>
    /\ pc = "serving"
    /\ header_data = Unset
    /\ all_events = <<>>
    /\ sheet_idx = 0
    /\ header_sections = <<>>
    /\ sec_idx = 0
    /\ row = 0
    /\ events = <<>>
    /\ notes_data = Unset
    /\ categories = Unset
    /\ errors = {}
    /\ arg = Unset
    /\ ret = Unset
    /\ uploads = EmptyDict
    /\ output = EmptyDict
    /\ requests \in {<<Request("report.xlsx", ReportA), Request(name, ReportB)>> :
                        name \in SecondNames}
    /\ conversation_history = <<>>
    /\ current_data_context = NoneV
    /\ current_filename = NoneV
    /\ data_summary = Unset
    /\ now = 0
    /\ messages = <<>>

CellmapName(r) == Stem(requests[r].filename) \o "_cellmap.json"

\* the outer except of upload_file: the request answers with an error
Fails(r) == [requests EXCEPT ![r].response = "error", ![r].pc = "done"]

\* file.save(str(filepath))
FileSave(r) ==
    /\ requests[r].pc = "save"
    /\ uploads' = Put(uploads, requests[r].filename, requests[r].file)
    /\ requests' = [requests EXCEPT ![r].pc = "load_workbook"]
    /\ UNCHANGED <<output, run, assistant>>

\* create_cellmap_from_excel: load_workbook(excel_path) and the loops
LoadWorkbook(r) ==
    /\ requests[r].pc = "load_workbook"
    /\ requests' =
          IF requests[r].filename \in DOMAIN uploads
          THEN [requests EXCEPT ![r].cellmap = uploads[requests[r].filename],
                                ![r].pc = "open_cellmap"]
          ELSE Fails(r)
    /\ UNCHANGED <<uploads, output, run, assistant>>

\* create_cellmap_from_excel: open(output_path, 'w')
OpenCellmap(r) ==
    /\ requests[r].pc = "open_cellmap"
    /\ output' = Put(output, CellmapName(r), Truncated)
    /\ requests' = [requests EXCEPT ![r].pc = "dump_cellmap"]
    /\ UNCHANGED <<uploads, run, assistant>>

\* create_cellmap_from_excel: json.dump(cellmap, f)
DumpCellmap(r) ==
    /\ requests[r].pc = "dump_cellmap"
    /\ output' = Put(output, CellmapName(r), requests[r].cellmap)
    /\ requests' = [requests EXCEPT ![r].pc = "header"]
    /\ UNCHANGED <<uploads, run, assistant>>

\* header_data = extract_report_header(str(cellmap_output)), saved; a file
\* that does not parse raises and the except keeps header_data = {}
RequestHeader(r) ==
    /\ requests[r].pc = "header"
    /\ IF output[CellmapName(r)] = Truncated
       THEN /\ requests' = [requests EXCEPT ![r].header_data = EmptyDict,
                                            ![r].pc = "events"]
            /\ UNCHANGED <<output, run, assistant>>
       ELSE \E h \in HeaderOf(output[CellmapName(r)]) :
               /\ requests' = [requests EXCEPT ![r].header_data = h,
                                               ![r].pc = "events"]
               /\ output' = Put(output, Stem(requests[r].filename) \o "_header.json", h)
    /\ UNCHANGED <<uploads, run, assistant>>

\* events = extract_timesheet_events_from_data(cellmap), saved
RequestEvents(r) ==
    /\ requests[r].pc = "events"
    /\ requests' = [requests EXCEPT ![r].events = EventsOf(requests[r].cellmap),
                                    ![r].pc = "notes"]
    /\ output' = Put(output, Stem(requests[r].filename) \o "_events.json",
                     EventsOf(requests[r].cellmap))
    /\ UNCHANGED <<uploads, run, assistant>>

\* notes_data = extract_operational_notes(str(cellmap_output)), saved; a file
\* that does not parse makes extract_operational_notes return {}
RequestNotes(r) ==
    /\ requests[r].pc = "notes"
    /\ LET notes == IF output[CellmapName(r)] = Truncated THEN EmptyDict
                    ELSE NotesOf(output[CellmapName(r)])
       IN  /\ requests' = [requests EXCEPT ![r].notes_data = notes,
                                           ![r].pc = "unlink"]
           /\ output' = Put(output, Stem(requests[r].filename) \o "_notes.json", notes)
    /\ UNCHANGED <<uploads, run, assistant>>

\* os.unlink(filepath) and the response
UnlinkUpload(r) ==
    /\ requests[r].pc = "unlink"
    /\ IF requests[r].filename \in DOMAIN uploads
       THEN /\ uploads' = Without(uploads, requests[r].filename)
            /\ requests' = [requests EXCEPT ![r].response = "success",
                                            ![r].pc = "done"]
       ELSE /\ uploads' = uploads
            /\ requests' = Fails(r)
    /\ UNCHANGED <<output, run, assistant>>

NextConcurrent ==
    \/ \E r \in 1..Len(requests) : FileSave(r)
    \/ \E r \in 1..Len(requests) : LoadWorkbook(r)
    \/ \E r \in 1..Len(requests) : OpenCellmap(r)
    \/ \E r \in 1..Len(requests) : DumpCellmap(r)
    \/ \E r \in 1..Len(requests) : RequestHeader(r)
    \/ \E r \in 1..Len(requests) : RequestEvents(r)
    \/ \E r \in 1..Len(requests) : RequestNotes(r)
    \/ \E r \in 1..Len(requests) : UnlinkUpload(r)

SpecConcurrent == InitConcurrent /\ [][NextConcurrent]_vars

----------------------------------------------------------------------------
(* The assistant: one MaritimeChatbot serves every request, its calls one    *)
(* after the other. now counts the readings of datetime.now()                *)

MaxClock == 6

\* a conversation that is kept
KeepConversation(history) == history

\* load_data_context: self.conversation_history = []
RestartConversation(history) == <<>>

\* any(word in question.lower() for word in words)
AnyWord(question, words) == AnyKeyword(Lower(question), words)

SequenceWords == <<"primera", "primer", "último", "final", "comenzó", "terminó">>
OperationWords == <<"tipo", "operación", "clase", "qué">>
TemporalWords == <<"cuándo", "fecha", "día", "hora", "tiempo">>
DetailWords ==
    <<"primera", "primer", "último", "final", "comenzó", "terminó", "cuál", "qué",
      "cuándo", "hora", "tiempo", "evento", "actividad", "tarea", "operación",
      "secuencia", "cronología", "detalle", "específico", "exacto", "descripción">>

\* min(dates) and max(dates) of the dates that are set, None without any
DateRange(evs) ==
    LET dates == {evs[k].Date : k \in {i \in 1..Len(evs) : Truthy(evs[i].Date)}}
    IN  [start |-> IF dates = {} THEN NoneV
                   ELSE CHOOSE d \in dates : \A e \in dates : ~StrLess(e.s, d.s),
         end |-> IF dates = {} THEN NoneV
                 ELSE CHOOSE d \in dates : \A e \in dates : ~StrLess(d.s, e.s),
         total_days |-> Cardinality(dates)]

\* self._prepare_data_summary(events, cellmap, header_data, notes_data); the
\* sheets are kept as a set, as list(set(...)) has no order of its own
DataSummary(evs, cellmap, header, notes) ==
    LET counted == prepare_data_summary(evs)
    IN  [total_events |-> counted.total_events,
         sheets |-> {evs[k].Sheet : k \in 1..Len(evs)},
         date_range |-> DateRange(evs),
         event_types |-> counted.event_types,
         cellmap_sheets |-> [n \in 1..Len(cellmap) |-> cellmap[n].name],
         header_data |-> header,
         notes_data |-> notes]

\* self._create_system_prompt(): what the prompt is written from
create_system_prompt(summary, filename) == [summary |-> summary, filename |-> filename]

\* the first three and the last three of a list
FirstThree(xs) == SubSeq(xs, 1, IF Len(xs) < 3 THEN Len(xs) ELSE 3)
LastThree(xs) == SubSeq(xs, IF Len(xs) < 3 THEN 1 ELSE Len(xs) - 2, Len(xs))

\* sorted(events, ...) of _enhance_question_with_context raises
enhance_question_raises(question, context) ==
    AnyWord(question, SequenceWords) /\ SortRaises(DateTimeKeys(context.events))

\* self._enhance_question_with_context(question): the question and the three
\* contexts added to it
enhance_question_with_context(question, context, summary) ==
    [question |-> question,
     sequence |-> IF AnyWord(question, SequenceWords)
                  THEN <<FirstThree(sorted_events(context.events)),
                         LastThree(sorted_events(context.events))>>
                  ELSE <<>>,
     operation |-> IF AnyWord(question, OperationWords)
                   THEN <<summary.total_events, summary.event_types>>
                   ELSE <<>>,
     temporal |-> IF AnyWord(question, TemporalWords)
                  THEN <<summary.date_range.start, summary.date_range.end>>
                  ELSE <<>>]

\* self._needs_detailed_events(question)
needs_detailed_events(question) == AnyWord(question, DetailWords)

\* sorted(events, ...) of _get_detailed_events_context raises
detailed_events_raises(question, context) ==
    /\ needs_detailed_events(question)
    /\ context.events # <<>>
    /\ SortRaises(DateTimeKeys(context.events))

\* self._get_detailed_events_context()
get_detailed_events_context(context) ==
    IF context.events = <<>> THEN <<>> ELSE sorted_events(context.events)

\* the last ten of the history, without the last of them
RecentHistory(history) ==
    LET recent == IF Len(history) > 10
                  THEN SubSeq(history, Len(history) - 9, Len(history))
                  ELSE history
    IN  SubSeq(recent, 1, Len(recent) - 1)

\* self._build_conversation_messages(system_prompt, user_question)
build_conversation_messages(history, system_prompt, question, context, summary) ==
    LET recent == RecentHistory(history)
    IN  <<[role |-> "system", content |-> system_prompt]>>
            \o [k \in 1..Len(recent) |->
                   [role |-> recent[k].role, content |-> recent[k].content]]
            \o <<[role |-> "user",
                  content |-> [enhanced |-> enhance_question_with_context(
                                                question, context, summary),
                               detailed |-> IF needs_detailed_events(question)
                                            THEN get_detailed_events_context(context)
                                            ELSE <<>>]]>>

build_conversation_messages_raises(question, context) ==
    enhance_question_raises(question, context)
        \/ detailed_events_raises(question, context)

\* the questions asked: none of the words, a sequence word, an operation word,
\* a temporal word
Questions == {"resumen general", "primer evento", "tipo", "fecha"}

\* what the model answers
Answers == {"respuesta"}

\* a log with an event that has no date, loaded without the other files
Undated ==
    <<EventAt(6, StrV("2024-01-01"), StrV("08:00")), EventAt(7, NoneV, StrV("10:30"))>>

\* the arguments load_chat_data gives to load_data_context
Loaded(name, file, header) ==
    [events |-> EventsOf(file), cellmap |-> file, filename |-> name,
     header_data |-> header, notes_data |-> NotesOf(file)]

Loads ==
    {Loaded("report", ReportA, h) : h \in HeaderOf(ReportA)}
        \cup {Loaded("other", ReportB, h) : h \in HeaderOf(ReportB)}
        \cup {[events |-> Undated, cellmap |-> <<>>, filename |-> "undated",
               header_data |-> EmptyDict, notes_data |-> EmptyDict]}

\* MaritimeChatbot.__init__
InitAssistant ==
    /\ NoUpload
    /\ pc = "assistant"
    /\ arg = Unset
    /\ ret = Unset

\* the result of a chat that failed
ErrorResult(error) == [success |-> FALSE, error |-> error, response |-> NoneV]

\* the message appended to the history
Message(role, content, timestamp) ==
    [role |-> role, content |-> content, timestamp |-> timestamp]

\* load_data_context(events, cellmap, filename, header_data, notes_data)
LoadDataContext(d) ==
    /\ pc = "assistant"
    /\ now < MaxClock
    /\ now' = now + 1
    /\ current_data_context' =
          [events |-> d.events, cellmap |-> d.cellmap, header_data |-> d.header_data,
           notes_data |-> d.notes_data, filename |-> d.filename, loaded_at |-> now']
    /\ current_filename' = StrV(d.filename)
    /\ data_summary' = DataSummary(d.events, d.cellmap, d.header_data, d.notes_data)
    /\ conversation_history' = RestartConversation(conversation_history)
    /\ ret' = [welcome |-> d.filename]
    /\ UNCHANGED <<grid, pc, header_data, all_events, sheet_idx, header_sections,
                   sec_idx, row, events, notes_data, categories, errors, arg,
                   server, messages>>

\* chat(user_question) with nothing loaded
ChatWithoutData(question) ==
    /\ pc = "assistant"
    /\ current_data_context = NoneV
    /\ ret' = ErrorResult("no data")
    /\ UNCHANGED <<grid, pc, header_data, all_events, sheet_idx, header_sections,
                   sec_idx, row, events, notes_data, categories, errors, arg,
                   server, assistant>>

\* chat(user_question): a sort of the events raises while the messages are
\* built, and the except returns the error
ChatBuildRaises(question) ==
    /\ pc = "assistant"
    /\ current_data_context # NoneV
    /\ now < MaxClock
    /\ build_conversation_messages_raises(question, current_data_context)
    /\ now' = now + 1
    /\ conversation_history' =
          Append(conversation_history, Message("user", question, now'))
    /\ ret' = ErrorResult("TypeError")
    /\ UNCHANGED <<grid, pc, header_data, all_events, sheet_idx, header_sections,
                   sec_idx, row, events, notes_data, categories, errors, arg,
                   server, current_data_context, current_filename, data_summary,
                   messages>>

\* chat(user_question): openai.ChatCompletion.create raises, and the except
\* returns the error
ChatModelRaises(question) ==
    /\ pc = "assistant"
    /\ current_data_context # NoneV
    /\ now < MaxClock
    /\ ~build_conversation_messages_raises(question, current_data_context)
    /\ now' = now + 1
    /\ conversation_history' =
          Append(conversation_history, Message("user", question, now'))
    /\ messages' = build_conversation_messages(
                       conversation_history',
                       create_system_prompt(data_summary, current_filename),
                       question, current_data_context, data_summary)
    /\ ret' = ErrorResult("model")
    /\ UNCHANGED <<grid, pc, header_data, all_events, sheet_idx, header_sections,
                   sec_idx, row, events, notes_data, categories, errors, arg,
                   server, current_data_context, current_filename, data_summary>>

\* chat(user_question): the model answers
ChatAnswers(question, answer) ==
    /\ pc = "assistant"
    /\ current_data_context # NoneV
    /\ now + 3 <= MaxClock
    /\ ~build_conversation_messages_raises(question, current_data_context)
    /\ now' = now + 3
    /\ conversation_history' =
          conversation_history \o <<Message("user", question, now + 1),
                                    Message("assistant", answer, now + 2)>>
    /\ messages' = build_conversation_messages(
                       Append(conversation_history, Message("user", question, now + 1)),
                       create_system_prompt(data_summary, current_filename),
                       question, current_data_context, data_summary)
    /\ ret' = [success |-> TRUE, response |-> answer, filename |-> current_filename,
               timestamp |-> now + 3,
               conversation_length |-> Len(conversation_history')]
    /\ UNCHANGED <<grid, pc, header_data, all_events, sheet_idx, header_sections,
                   sec_idx, row, events, notes_data, categories, errors, arg,
                   server, current_data_context, current_filename, data_summary>>

\* clear_conversation()
ClearConversation ==
    /\ pc = "assistant"
    /\ conversation_history' = <<>>
    /\ ret' = [cleared |-> TRUE]
    /\ UNCHANGED <<grid, pc, header_data, all_events, sheet_idx, header_sections,
                   sec_idx, row, events, notes_data, categories, errors, arg,
                   server, current_data_context, current_filename, data_summary,
                   now, messages>>

NextAssistant ==
    \/ \E d \in Loads : LoadDataContext(d)
    \/ \E question \in Questions : ChatWithoutData(question)
    \/ \E question \in Questions : ChatBuildRaises(question)
    \/ \E question \in Questions : ChatModelRaises(question)
    \/ \E question \in Questions, answer \in Answers : ChatAnswers(question, answer)
    \/ ClearConversation

SpecAssistant == InitAssistant /\ [][NextAssistant]_vars

----------------------------------------------------------------------------
(* The claims                                                               *)

\* the text of a cell is blank after trimming
BlankText(v) == Strip(PyStr(v)) = ""

\* C1: when the walk of a section that starts at row R ends, it has emitted
\* exactly one record for each of the rows R .. R+k-1, in ascending order,
\* where R+k is the first row at or after R whose event cell is absent or
\* blank after trimming.
C1_SectionWalker ==
    (pc = "sections" /\ sec_idx > 1) =>
        LET data == grid[sheet_idx].cells
            section == header_sections[sec_idx - 1]
            R == section.start_row
            Ends(r) == \/ ~Has(data, CellRef(section.event_col, r))
                       \/ BlankText(Get(data, CellRef(section.event_col, r)))
            k == CHOOSE n \in 0..(Len(data) + 1) :
                    Ends(R + n) /\ \A m \in 0..(n - 1) : ~Ends(R + m)
        IN  /\ Len(events) = k
            /\ \A i \in 1..k : events[i].Row = R + i - 1

\* C2: find_timesheet_headers returns no two descriptors with the same
\* start_row, and no row of a sheet contributes two records to the events.
C2_VariantExclusive ==
    /\ pc = "sections" =>
          \A i, j \in 1..Len(header_sections) :
              i # j => header_sections[i].start_row # header_sections[j].start_row
    /\ \A i, j \in 1..Len(all_events) :
          i # j => \/ all_events[i].Sheet # all_events[j].Sheet
                   \/ all_events[i].Row # all_events[j].Row

\* the categories of the claim, in its order
ClaimedOrder ==
    <<"Alije/Transferencia", "Carga", "Descarga", "Llegada/Salida", "Muestreo",
      "Inspección", "Operaciones de Tanque", "Limpieza", "Certificación">>

\* a keyword of the category occurs in the lowercased text
KeywordOccurs(text, category) ==
    \E p \in 1..Len(Patterns) :
        /\ Patterns[p].category = category
        /\ \E k \in 1..Len(Patterns[p].keywords) :
              Contains(Lower(text), Patterns[p].keywords[k])

\* C3: the event is placed in exactly one category: the first one, in the
\* order Alije/Transferencia .. Certificación, with a keyword occurring in the
\* lowercased text, and Otros when no keyword of any category occurs; a text
\* with both "tank" and "barge" goes to Alije/Transferencia.
C3_FirstCategoryWins ==
    pc = "categorized" =>
        LET text == arg[1].Event
        IN  /\ Len(ret) = 1
            /\ ret[1].events = arg
            /\ \A c \in 1..Len(ClaimedOrder) :
                  ret[1].category = ClaimedOrder[c] <=>
                      /\ KeywordOccurs(text, ClaimedOrder[c])
                      /\ \A b \in 1..(c - 1) : ~KeywordOccurs(text, ClaimedOrder[b])
            /\ ret[1].category = "Otros" <=>
                  \A c \in 1..Len(ClaimedOrder) : ~KeywordOccurs(text, ClaimedOrder[c])
            /\ Contains(Lower(text), "tank") /\ Contains(Lower(text), "barge")
                  => ret[1].category = "Alije/Transferencia"

\* a text with both "tank" and "barge" has been classified
C3_Witness ==
    /\ pc = "categorized"
    /\ Contains(Lower(arg[1].Event), "tank")
    /\ Contains(Lower(arg[1].Event), "barge")
    /\ ret[1].category = "Alije/Transferencia"

\* the result of format_time for a text t that is not to be trimmed further
TimeOf(t) ==
    IF Contains(t, ":") THEN t
    ELSE IF IsDigit(t) /\ Len(t) = 1 THEN "0" \o t \o ":00"
    ELSE IF IsDigit(t) /\ Len(t) = 2 THEN t \o ":00"
    ELSE IF IsDigit(t) /\ Len(t) = 3 THEN "0" \o SubSeq(t, 1, 1) \o ":" \o SubSeq(t, 2, 3)
    ELSE IF IsDigit(t) /\ Len(t) = 4 THEN SubSeq(t, 1, 2) \o ":" \o SubSeq(t, 3, 4)
    ELSE t

\* C4, amended: format_time works on the text of its input with the
\* surrounding whitespace removed (no input gives no result): a text with a
\* colon is returned as it is, an all-digit text of length 1 or 2 becomes the
\* zero-padded hour and ":00", of length 3 a 1-digit hour and 2-digit minute,
\* of length 4 a 2-digit hour and 2-digit minute, every other text is returned
\* as it is, and no range is checked.
C4_FormatTimeTrimmed ==
    pc = "time_formatted" =>
        IF arg = NoneV THEN ret = NoneV
        ELSE ret = StrV(TimeOf(Strip(PyStr(arg))))

\* an input with surrounding whitespace and a colon has been formatted
C4_Witness ==
    /\ pc = "time_formatted"
    /\ arg = StrV(" 09:15 ")
    /\ ret = StrV("09:15")

\* C4: an input with a colon is returned unchanged, an all-digit input of
\* length 1 or 2 becomes the zero-padded hour and ":00", of length 3 a 1-digit
\* hour and 2-digit minute, of length 4 a 2-digit hour and 2-digit minute, and
\* every other input is returned unchanged.
C4_FormatTime ==
    pc = "time_formatted" =>
        IF arg = NoneV THEN ret = NoneV
        ELSE ret = StrV(TimeOf(PyStr(arg)))

\* the cleaned text of the string cell at ref, "" when there is none
LabelAt(data, ref) ==
    IF Has(data, ref) /\ IsStr(Get(data, ref)) THEN CleanLower(Get(data, ref)) ELSE ""

\* the words a timesheet header row is made of
HeaderWords == {"event", "date", "time", "hrs"}

\* row r holds Event, Date, Time in columns A, B, C, and no cell of another
\* row of the sheet is a header word
OnlyHeaderRow(data, r) ==
    /\ LabelAt(data, CellRef("A", r)) = "event"
    /\ LabelAt(data, CellRef("B", r)) = "date"
    /\ LabelAt(data, CellRef("C", r)) = "time"
    /\ \A i \in 1..Len(data) :
          IsStr(data[i].val) /\ CleanLower(data[i].val) \in HeaderWords
              => split_cell_reference(data[i].ref).row = r

\* the rows a header row of the model's sheets may be at
SheetRows(data) == 1..(Len(data) + 20)

\* C5: for a grid of one sheet whose only header row is Event/Date/Time at
\* row r, followed by k rows with a non-blank event cell and then a blank or
\* absent event cell, the stored events are exactly k records, for the rows
\* r+1 .. r+k in this order, all tagged with the sheet; for the rows "Loading
\* commenced", "Sampling completed" and then an empty row they are 2 records,
\* the first classified Carga and the second Muestreo.
C5_EndToEnd ==
    (/\ pc \in {"uploaded", "analyzed"}
     /\ Len(grid) = 1
     /\ \E r \in SheetRows(grid[1].cells) : OnlyHeaderRow(grid[1].cells, r)) =>
        LET data == grid[1].cells
            r == CHOOSE q \in SheetRows(data) : OnlyHeaderRow(data, q)
            Ends(q) == \/ ~Has(data, CellRef("A", q))
                       \/ BlankText(Get(data, CellRef("A", q)))
            k == CHOOSE n \in 0..(Len(data) + 1) :
                    Ends(r + 1 + n) /\ \A m \in 0..(n - 1) : ~Ends(r + 1 + m)
        IN  /\ Len(all_events) = k
            /\ \A i \in 1..k : /\ all_events[i].Row = r + i
                                /\ all_events[i].Sheet = grid[1].name
            /\ (/\ pc = "analyzed"
                /\ Get(data, CellRef("A", r + 1)) = StrV("Loading commenced")
                /\ Get(data, CellRef("A", r + 2)) = StrV("Sampling completed")
                /\ Ends(r + 3)) =>
                    /\ Len(all_events) = 2
                    /\ categories =
                          << [category |-> "Carga", events |-> <<all_events[1]>>],
                             [category |-> "Muestreo", events |-> <<all_events[2]>>] >>

\* the labels of the field of operational_data with the key given
LabelsOf(key) ==
    LET f == CHOOSE g \in 1..Len(field_mapping) : field_mapping[g].key = key
    IN  {field_mapping[f].names[n] : n \in 1..Len(field_mapping[f].names)}

\* the label of the field of timesheet_header with the key given
LabelOf(key) ==
    header_fields[CHOOSE g \in 1..Len(header_fields) : header_fields[g].key = key].name

\* value is what follows the first colon of a string cell of the sheet,
\* trimmed
AfterColonOfSomeCell(sheet_data, value) ==
    \E i \in 1..Len(sheet_data) :
        /\ IsStr(sheet_data[i].val)
        /\ Contains(sheet_data[i].val.s, ":")
        /\ value = Strip(AfterFirst(Strip(sheet_data[i].val.s), ":"))

\* C6: every value of operational_data, and every value of timesheet_header
\* that was filled from a "<label>: value" cell, is the trimmed text after the
\* first colon of a cell, and is not the empty string, not a single character
\* and not the label itself.
C6_InlineValueRule ==
    /\ header_data # Unset =>
          \A key \in DOMAIN header_data.operational_data :
              LET value == header_data.operational_data[key]
              IN  /\ AfterColonOfSomeCell(header_data.raw_cubierta_data, value)
                  /\ value # ""
                  /\ Len(value) > 1
                  /\ value \notin LabelsOf(key)
    /\ (notes_data # Unset /\ "timesheet_header" \in DOMAIN notes_data) =>
          LET log == TimesheetHeaderRun(notes_data.raw_notes_data).found
          IN  \A n \in 1..Len(log) :
                  log[n].how = "inline" =>
                      /\ AfterColonOfSomeCell(notes_data.raw_notes_data, log[n].value)
                      /\ log[n].value # ""
                      /\ Len(log[n].value) > 1
                      /\ log[n].value # LabelOf(log[n].key)

\* the cell one row below the cell at ref
Below(ref) ==
    CellRef(split_cell_reference(ref).col, split_cell_reference(ref).row + 1)

\* no cell of the sheet has a colon in its text
NoColon(sheet_data) ==
    \A i \in 1..Len(sheet_data) : ~Contains(PyStr(sheet_data[i].val), ":")

\* C8: a cover-sheet cell "Terminal: ACME Port" gives operational_data.terminal
\* = "ACME Port", and so does a bare cover-sheet cell "Terminal" with "ACME
\* Port" in the cell one row below it, on a sheet with no colon anywhere.
C8_FieldScenario ==
    header_data # Unset =>
        LET cover == header_data.raw_cubierta_data
            IsTerminal == /\ "terminal" \in DOMAIN header_data.operational_data
                          /\ header_data.operational_data["terminal"] = "ACME Port"
        IN  /\ (\E i \in 1..Len(cover) : cover[i].val = StrV("Terminal: ACME Port"))
                  => IsTerminal
            /\ (/\ NoColon(cover)
                /\ \E i \in 1..Len(cover) :
                      /\ cover[i].val = StrV("Terminal")
                      /\ Get(cover, Below(cover[i].ref)) = StrV("ACME Port"))
                  => IsTerminal

\* the text of the cell at ref contains the label followed by a colon
LabelledCell(sheet_data, ref, label) ==
    Contains(PyStr(Get(sheet_data, ref)), label \o ":")

\* C9: a field is filled inline only from a cell whose text contains the
\* field's label immediately followed by a colon: for every value of
\* operational_data there is such a cell on the cover sheet, and every field
\* of timesheet_header filled from a "<label>: value" cell was filled from
\* such a cell.
C9_InlineTrigger ==
    /\ header_data # Unset =>
          \A key \in DOMAIN header_data.operational_data :
              \E i \in 1..Len(header_data.raw_cubierta_data) :
                  \E label \in LabelsOf(key) :
                      LabelledCell(header_data.raw_cubierta_data,
                                   header_data.raw_cubierta_data[i].ref, label)
    /\ (notes_data # Unset /\ "timesheet_header" \in DOMAIN notes_data) =>
          LET log == TimesheetHeaderRun(notes_data.raw_notes_data).found
          IN  \A n \in 1..Len(log) :
                  log[n].how = "inline" =>
                      LabelledCell(notes_data.raw_notes_data, log[n].cell,
                                   LabelOf(log[n].key))

\* the trimmed text of the cell at ref
TextAt(sheet_data, ref) == Strip(PyStr(Get(sheet_data, ref)))

\* the i-th cell of the sheet is a text cell of the header rows
HeaderText(sheet_data, i) ==
    /\ IsStr(sheet_data[i].val)
    /\ Truthy(sheet_data[i].val)
    /\ split_cell_reference(sheet_data[i].ref).row <= HeaderRows

\* the candidates of a label cell at column col of row r, in the order of the
\* claim: column D first for a label in column B, then one, two and three
\* columns to the right, then one row down
ClaimedCandidates(col, r) ==
    (IF col = "B" THEN <<CellRef("D", r)>> ELSE <<>>)
        \o << CellRef(ChrOrdPlus(col, 1), r), CellRef(ChrOrdPlus(col, 2), r),
               CellRef(ChrOrdPlus(col, 3), r), CellRef(col, r + 1) >>

\* the candidates of the i-th cell
CandidatesOf(sheet_data, i) ==
    ClaimedCandidates(split_cell_reference(sheet_data[i].ref).col,
                      split_cell_reference(sheet_data[i].ref).row)

\* the candidate is present, not a false value, and its trimmed text is longer
\* than one character and not a label
Qualifies(sheet_data, ref) ==
    /\ Has(sheet_data, ref)
    /\ Truthy(Get(sheet_data, ref))
    /\ Len(TextAt(sheet_data, ref)) > 1
    /\ TextAt(sheet_data, ref) \notin LabelNames

\* the candidate is non-empty and not a label
NonEmptyNoLabel(sheet_data, ref) ==
    /\ Has(sheet_data, ref)
    /\ TextAt(sheet_data, ref) # ""
    /\ TextAt(sheet_data, ref) \notin LabelNames

\* the first candidate of cands that satisfies Q, 0 if none does
FirstOf(cands, Q(_)) ==
    IF \E a \in 1..Len(cands) : Q(cands[a])
    THEN CHOOSE a \in 1..Len(cands) : Q(cands[a]) /\ \A b \in 1..(a - 1) : ~Q(cands[b])
    ELSE 0

\* the i-th cell fills the field with the label given, if no cell did before:
\* inline, or as a label cell with a candidate that qualifies
Offers(sheet_data, i, label) ==
    /\ HeaderText(sheet_data, i)
    /\ LET text == Strip(sheet_data[i].val.s)
           after == Strip(AfterFirst(text, ":"))
           Q(ref) == Qualifies(sheet_data, ref)
       IN  \/ /\ Contains(text, label)
              /\ Contains(text, ":")
              /\ Len(after) > 1
              /\ after # label
           \/ /\ text = label
              /\ FirstOf(CandidatesOf(sheet_data, i), Q) # 0

WellFormedRef(ref) ==
    /\ KeepAlpha(ref) # ""
    /\ KeepDigits(ref) # ""
    /\ ref = KeepAlpha(ref) \o KeepDigits(ref)
    /\ ParseInt(KeepDigits(ref)) > 0

\* a string cell of row r of the sheet reads one of the words
RowReads(sheet_data, r, words) ==
    \E i \in 1..Len(sheet_data) :
        /\ IsStr(sheet_data[i].val)
        /\ split_cell_reference(sheet_data[i].ref).row = r
        /\ CleanLower(sheet_data[i].val) \in words

\* some row of the sheet has cells reading event, date, and time or hrs
HasHeaderRow(sheet_data) ==
    \E i \in 1..Len(sheet_data) :
        /\ IsStr(sheet_data[i].val)
        /\ CleanLower(sheet_data[i].val) = "event"
        /\ RowReads(sheet_data, split_cell_reference(sheet_data[i].ref).row, {"date"})
        /\ RowReads(sheet_data, split_cell_reference(sheet_data[i].ref).row,
                    {"time", "hrs"})

\* the grid has well-formed references, and no sheet of it has a timesheet
\* header row, is a cover sheet by its name, or has a notes marker in its text
NoStructure ==
    \A s \in 1..Len(grid) :
        /\ \A i \in 1..Len(grid[s].cells) : WellFormedRef(grid[s].cells[i].ref)
        /\ ~HasHeaderRow(grid[s].cells)
        /\ ~Contains(Lower(grid[s].name), "cubierta")
        /\ ~Contains(Lower(grid[s].name), "cover")
        /\ \A marker \in NotesMarkers : ~Contains(AllText(grid[s].cells), marker)

\* C10: for a grid in which no sheet has a timesheet header row, no sheet is a
\* cover sheet and no sheet contains a notes marker, the upload raises no
\* error and stores no event, a header whose fields are all null or empty, and
\* notes whose source_sheet is null and whose sections are all empty.
C10_BestEffort ==
    (pc = "uploaded" /\ NoStructure) =>
        /\ errors = {}
        /\ all_events = <<>>
        /\ header_data = [report_type |-> NoneV, vessels |-> EmptyDict,
                          products |-> EmptyDict, commercial_references |-> <<>>,
                          operational_data |-> EmptyDict, raw_cubierta_data |-> <<>>]
        /\ notes_data.source_sheet = NoneV
        /\ notes_data.weather_conditions = EmptyDict
        /\ notes_data.pumping_data = EmptyDict
        /\ notes_data.remarks_and_notes = EmptyDict
        /\ notes_data.vessel_information = EmptyDict
        /\ notes_data.raw_notes_data = <<>>

\* a grid with event-like rows but no header row, cover sheet or notes marker
\* has been uploaded
C10_Witness ==
    /\ pc = "uploaded"
    /\ NoStructure
    /\ Len(grid) = 1
    /\ Get(grid[1].cells, "A5") = StrV("Loading commenced")
    /\ all_events = <<>>
    /\ notes_data.source_sheet = NoneV

\* the cells of the sheet with a well-formed reference
GoodCells(sheet_data) ==
    LET Good(c) == WellFormedRef(c.ref) IN SelectSeq(sheet_data, Good)

\* C11: a cell whose reference has no row digits, or a label cell in a
\* multi-letter column, is skipped and extraction continues: every section of
\* the well-formed cells of a sheet that has a first event row has its events
\* among the stored events, and the notes of the notes sheet are stored with
\* their source sheet and the remarks found on it.
C11_FailureContainment ==
    pc = "uploaded" =>
        /\ \A s \in 1..Len(grid) :
              LET good == GoodCells(grid[s].cells)
                  sections == find_timesheet_headers(good)
              IN  \A k \in 1..Len(sections) :
                      ~WalkStops(good, sections[k], sections[k].start_row) =>
                          \E e \in 1..Len(all_events) :
                              /\ all_events[e].Sheet = grid[s].name
                              /\ all_events[e].Row = sections[k].start_row
        /\ LET n == find_timesheet_with_notes(grid)
           IN  n # 0 =>
                   /\ "source_sheet" \in DOMAIN notes_data
                   /\ notes_data.source_sheet = StrV(grid[n].name)
                   /\ notes_data.remarks_and_notes
                         = extract_remarks_and_notes(grid[n].cells)

\* the notes were stored with a notes table that has a start row
TableFound ==
    /\ notes_data # Unset
    /\ "table_structure" \in DOMAIN notes_data
    /\ notes_data.table_structure # NoneV
    /\ notes_data.table_structure.start_row # NoneV

\* the i-th cell of the notes sheet is in the window of the pumping scan and
\* its text contains the label
PumpingLabelCell(sheet_data, i, label) ==
    LET p == split_cell_reference(sheet_data[i].ref)
        first == notes_data.table_structure.start_row.n + 1
    IN  /\ \E c \in 1..Len(PumpingColumns) : PumpingColumns[c] = p.col
        /\ p.row \in first..(first + PumpingLastOffset - 1)
        /\ Truthy(sheet_data[i].val)
        /\ Contains(Strip(PyStr(sheet_data[i].val)), label)

\* the text has no digit, so no number can be read from it
NoNumberIn(text) == \A i \in 1..Len(text) : ~IsDigitCh(Ch(text, i))

\* C12: when the value cell one row below a "Pumping Time" or "Pumping Rate"
\* label is non-empty and has no parsable number, pumping_data holds the raw
\* trimmed text of that cell under the field; when it has a number, the field
\* is the first signed decimal number of the text.
C12_PumpingFailSoft ==
    TableFound =>
        LET data == notes_data.raw_notes_data
        IN  \A i \in 1..Len(data) : \A f \in 1..2 :
                LET below == Below(data[i].ref)
                    text == TextAt(data, below)
                IN  (/\ PumpingLabelCell(data, i, field_patterns[f].name)
                     /\ Has(data, below)
                     /\ Truthy(Get(data, below))) =>
                        /\ field_patterns[f].key \in DOMAIN notes_data.pumping_data
                        /\ notes_data.pumping_data[field_patterns[f].key] =
                              IF NoNumberIn(text) THEN StrV(text)
                              ELSE ParseFloat(SearchNumber(text).group)

\* the labelled scan of the stored notes sheet, without the fallback
LabelledScan ==
    LET data == notes_data.raw_notes_data
    IN  PumpingScan(EmptyDict, data,
                    ScanHits(data, PumpingColumns,
                             notes_data.table_structure.start_row.n,
                             PumpingLastOffset))

\* the i-th cell holds a bare number
BareNumberAt(data, i) ==
    Truthy(data[i].val) /\ IsBareNumber(Strip(PyStr(data[i].val)))

BareValue(data, i) == ParseFloat(Strip(PyStr(data[i].val)))

\* strictly between -50 and 0
InTimeRange(x) == FloatAbove(x, -50) /\ FloatBelow(x, 0)

\* below -100
InRateRange(x) == FloatBelow(x, -100)

\* field key of filled holds the value of the first bare-number cell in
\* range, and is absent when no bare-number cell is in range
FirstInRange(filled, key, data, InRange(_)) ==
    LET hits == {i \in 1..Len(data) :
                    BareNumberAt(data, i) /\ InRange(BareValue(data, i))}
    IN  IF hits = {} THEN key \notin DOMAIN filled
        ELSE /\ key \in DOMAIN filled
             /\ filled[key] =
                    BareValue(data, CHOOSE i \in hits : \A j \in hits : i <= j)

\* what C13 says of the stored pumping data
FallbackRule ==
    LET data == notes_data.raw_notes_data
        filled == notes_data.pumping_data
        labelled == LabelledScan
        unfilled == {"pumping_time", "pumping_rate"} \ DOMAIN labelled
    IN  /\ \A key \in DOMAIN labelled :
              key \in DOMAIN filled /\ filled[key] = labelled[key]
        /\ "pumping_time" \in unfilled =>
              FirstInRange(filled, "pumping_time", data, InTimeRange)
        /\ "pumping_rate" \in unfilled =>
              FirstInRange(filled, "pumping_rate", data, InRateRange)

\* the notes were taken from a sheet
NotesSheetFound ==
    /\ notes_data # Unset
    /\ "source_sheet" \in DOMAIN notes_data
    /\ notes_data.source_sheet # NoneV

\* C13 (amended): when the notes table structure with its start row was
\* found, a pumping_time or pumping_rate the labelled scan left unfilled is
\* the first bare-number cell, in grid order, with a value strictly between
\* -50 and 0 (pumping_time) or below -100 (pumping_rate); a field the
\* labelled scan filled is unchanged and no value outside the ranges is
\* assigned.
C13_FallbackWithStructure == TableFound => FallbackRule

\* the labelled scan filled nothing and the fallback took pumping_rate from
\* one bare number and pumping_time from a later one
C13_Witness ==
    /\ TableFound
    /\ DOMAIN LabelledScan = {}
    /\ DOMAIN notes_data.pumping_data = {"pumping_time", "pumping_rate"}
    /\ \E i, j \in 1..Len(notes_data.raw_notes_data) :
          /\ i < j
          /\ BareNumberAt(notes_data.raw_notes_data, i)
          /\ BareNumberAt(notes_data.raw_notes_data, j)
          /\ notes_data.pumping_data.pumping_rate
                = BareValue(notes_data.raw_notes_data, i)
          /\ notes_data.pumping_data.pumping_time
                = BareValue(notes_data.raw_notes_data, j)

\* C13: whenever pumping_time or pumping_rate is unfilled after the labelled
\* scan of the notes sheet, the fallback fills it from the first bare-number
\* cell in range, whether the notes table structure was found or not.
C13_Fallback ==
    NotesSheetFound =>
        LET data == notes_data.raw_notes_data
            filled == notes_data.pumping_data
        IN  IF TableFound THEN FallbackRule
            ELSE /\ FirstInRange(filled, "pumping_time", data, InTimeRange)
                 /\ FirstInRange(filled, "pumping_rate", data, InRateRange)

\* some cell of the sheet holds a text that contains a notes marker
CellHasMarker(sheet_data) ==
    \E i \in 1..Len(sheet_data) : \E keyword \in NotesMarkers :
        /\ Truthy(sheet_data[i].val)
        /\ Contains(PyStr(sheet_data[i].val), keyword)

\* C14: source_sheet is the first sheet, in grid order, in which some cell
\* contains one of the notes markers, and it is null when no cell of any
\* sheet contains a marker.
C14_FirstMarkedSheet ==
    (notes_data # Unset /\ "source_sheet" \in DOMAIN notes_data) =>
        LET marked == {s \in 1..Len(grid) : CellHasMarker(grid[s].cells)}
        IN  IF marked = {} THEN notes_data.source_sheet = NoneV
            ELSE notes_data.source_sheet =
                    StrV(grid[CHOOSE s \in marked : \A t \in marked : s <= t].name)

\* the sheet's text, the texts of its non-empty cells joined by single
\* spaces, contains a notes marker
TextHasMarker(sheet_data) ==
    \E keyword \in NotesMarkers : Contains(AllText(sheet_data), keyword)

\* C14 (amended): source_sheet is the first sheet, in grid order, whose text
\* (its non-empty cell values joined by single spaces) contains one of the
\* notes markers; a later sheet is never chosen while an earlier one
\* qualifies, and source_sheet is null when no sheet's text contains a marker.
C14_FirstMatchWins ==
    (notes_data # Unset /\ "source_sheet" \in DOMAIN notes_data) =>
        /\ notes_data.source_sheet = NoneV <=>
              \A s \in 1..Len(grid) : ~TextHasMarker(grid[s].cells)
        /\ notes_data.source_sheet # NoneV =>
              \E s \in 1..Len(grid) :
                  /\ notes_data.source_sheet = StrV(grid[s].name)
                  /\ TextHasMarker(grid[s].cells)
                  /\ \A t \in 1..(s - 1) : ~TextHasMarker(grid[t].cells)

\* two sheets hold a marker and the notes were taken from the first
C14_Witness ==
    /\ NotesSheetFound
    /\ Len(grid) > 1
    /\ CellHasMarker(grid[1].cells)
    /\ CellHasMarker(grid[2].cells)
    /\ grid[1].name # grid[2].name
    /\ notes_data.source_sheet = StrV(grid[1].name)

\* the keys of a HeaderRecord and of a NotesRecord
HeaderKeys ==
    {"report_type", "vessels", "products", "commercial_references",
     "operational_data", "raw_cubierta_data"}

NotesKeys ==
    {"weather_conditions", "pumping_data", "remarks_and_notes",
     "vessel_information", "source_sheet", "raw_notes_data",
     "timesheet_header", "table_structure"}

\* C15: every HeaderRecord and every NotesRecord has the same keys whatever
\* the grid: vessels has tanker, barge and voyage, products has quantities,
\* products and bol_numbers, and a NotesRecord has timesheet_header and
\* table_structure, also when no cover sheet or no notes sheet is found.
C15_KeyPresence ==
    /\ header_data # Unset =>
          /\ DOMAIN header_data = HeaderKeys
          /\ DOMAIN header_data.vessels = {"tanker", "barge", "voyage"}
          /\ DOMAIN header_data.products = {"quantities", "products", "bol_numbers"}
    /\ (notes_data # Unset /\ "notes" \notin errors) =>
          DOMAIN notes_data = NotesKeys

\* a date or time as the views order it, null as the empty text
ViewText(v) == IF v = NoneV THEN "" ELSE v.s

\* (d1, t1) <= (d2, t2)
NotAfter(d1, t1, d2, t2) ==
    \/ StrLess(ViewText(d1), ViewText(d2))
    \/ /\ ViewText(d1) = ViewText(d2)
       /\ ~StrLess(ViewText(t2), ViewText(t1))

\* C16: the analyzer's chronological_events and the assistant's sorted event
\* list are in non-decreasing (date, time) order for every event list, also
\* with shared dates and with null dates or times, and building a view never
\* fails.
C16_ChronologicalViews ==
    /\ pc = "timeline" =>
          LET view == ret.chronological_events
          IN  \A k \in 1..(Len(view) - 1) :
                  NotAfter(view[k].date, view[k].time,
                           view[k + 1].date, view[k + 1].time)
    /\ pc = "context" =>
          /\ "chat" \notin errors
          /\ \A k \in 1..(Len(ret) - 1) :
                NotAfter(ret[k].Date, ret[k].Time, ret[k + 1].Date, ret[k + 1].Time)

\* C17: a second extraction on the same grid yields the records of the first,
\* and the grid is the same after extraction as before it.
C17_Idempotence ==
    (pc = "uploaded" /\ arg # Unset) =>
        /\ grid = arg.grid
        /\ header_data = arg.header_data
        /\ all_events = arg.events
        /\ notes_data = arg.notes_data

\* the event extraction has returned
EventsExtracted == pc \in {"notes", "uploaded", "analyzed"}

\* the event cell of row r of the section being walked is absent or blank
EndsWalk(r) ==
    LET data == grid[sheet_idx].cells
        event_cell == CellRef(header_sections[sec_idx].event_col, r)
    IN  ~Has(data, event_cell) \/ BlankText(Get(data, event_cell))

\* a step of the row walk moves to the next row, ...
WalkAdvances == (pc = "walk" /\ pc' = "walk") => row' = row + 1

\* ... it never goes past an absent or blank event cell, ...
WalkBounded == (pc = "walk" /\ pc' = "walk") => ~EndsWalk(row)

\* ... and the walk ends at an absent or blank event cell
WalkEndsAtBlank == (pc = "walk" /\ pc' # "walk") => EndsWalk(row)

\* C18: on every finite grid the event extraction terminates; each step of a
\* row walk increases the row by one, and the walk stops at the first absent or
\* blank event cell.
C18_Termination ==
    /\ <>EventsExtracted
    /\ [][WalkAdvances /\ WalkBounded /\ WalkEndsAtBlank]_vars

\* a time component: digits and colons, with a digit and a colon
TimeLike(text) ==
    /\ \A i \in 1..Len(text) : IsDigitCh(Ch(text, i)) \/ Ch(text, i) = ":"
    /\ \E i \in 1..Len(text) : IsDigitCh(Ch(text, i))
    /\ \E i \in 1..Len(text) : Ch(text, i) = ":"

\* the text without its trailing time component, if it has one
WithoutTrailingTime(text) ==
    LET cuts == {i \in 1..Len(text) :
                    /\ Ch(text, i) \in Whitespace
                    /\ TimeLike(Strip(SubSeq(text, i + 1, Len(text))))}
    IN  IF cuts = {} THEN text
        ELSE RStrip(SubSeq(text, 1, (CHOOSE i \in cuts : \A j \in cuts : i <= j) - 1))

\* C19: format_date returns the text of a non-null date with only a trailing
\* time component, separated from the date by whitespace, removed; any other
\* text, such as "01 Jan 2024", is preserved as it is, and null stays null.
C19_FormatDate ==
    pc = "date_formatted" =>
        IF arg = NoneV THEN ret = NoneV
        ELSE ret = StrV(WithoutTrailingTime(Strip(PyStr(arg))))

\* a reference without letters, without digits, or whose row is below 1
MalformedRef(ref) ==
    \/ KeepAlpha(ref) = ""
    \/ KeepDigits(ref) = ""
    \/ ParseInt(KeepDigits(ref)) < 1

\* C20: split_cell_reference fails on every reference whose letter part is
\* empty ("5"), whose digit part is empty ("A") or whose row is not a positive
\* integer ("A0"), and never returns an empty column or a row below 1.
C20_ParseFailure ==
    pc = "split" =>
        /\ MalformedRef(arg) => "ValueError" \in errors
        /\ ret # Unset => ret.col # "" /\ ret.row >= 1

\* a string cell at column col of row r whose cleaned text is one of words
RoleCellAt(data, col, r, words) ==
    \E j \in 1..Len(data) :
        /\ IsStr(data[j].val)
        /\ KeepAlpha(data[j].ref) = col
        /\ KeepDigits(data[j].ref) # ""
        /\ ParseInt(KeepDigits(data[j].ref)) = r
        /\ Lower(Strip(data[j].val.s)) \in words

\* some cell of row r has the role
RoleInRow(data, r, words) ==
    \E j \in 1..Len(data) : RoleCellAt(data, KeepAlpha(data[j].ref), r, words)

EventRole == {"event"}
DateRole == {"date"}
TimeRole == {"time", "hrs"}

\* the rows of the cells of a sheet
RowsOfSheet(data) ==
    {ParseInt(KeepDigits(data[j].ref)) : j \in {i \in 1..Len(data) : KeepDigits(data[i].ref) # ""}}

\* C21: every section descriptor returned by find_timesheet_headers has its
\* event, date and time columns resolved, pairwise distinct and taken from
\* cells of one header row, with start_row that row + 1; a row missing one of
\* the three roles yields no descriptor.
C21_SectionDescriptor ==
    pc \in {"sections", "walk"} =>
        LET data == grid[sheet_idx].cells IN
        /\ \A k \in 1..Len(header_sections) :
              LET s == header_sections[k]
                  r == s.start_row - 1
              IN  /\ RoleCellAt(data, s.event_col, r, EventRole)
                  /\ RoleCellAt(data, s.date_col, r, DateRole)
                  /\ RoleCellAt(data, s.time_col, r, TimeRole)
                  /\ s.event_col # s.date_col
                  /\ s.event_col # s.time_col
                  /\ s.date_col # s.time_col
        /\ \A r \in RowsOfSheet(data) :
              (\/ ~RoleInRow(data, r, EventRole)
               \/ ~RoleInRow(data, r, DateRole)
               \/ ~RoleInRow(data, r, TimeRole))
                  => \A k \in 1..Len(header_sections) : header_sections[k].start_row # r + 1

\* a sheet with a descriptor and with a row that has some of the roles only
C21_Witness ==
    /\ pc = "sections"
    /\ header_sections # <<>>
    /\ \E r \in RowsOfSheet(grid[sheet_idx].cells) :
          /\ RoleInRow(grid[sheet_idx].cells, r, EventRole)
          /\ ~RoleInRow(grid[sheet_idx].cells, r, DateRole)

\* C22: for every one-letter column A..Z and every positive row, parsing the
\* reference built as the column followed by the row returns that column and
\* that row.
C22_RoundTrip ==
    pc = "ref_parsed" =>
        /\ errors = {}
        /\ ret = [col |-> arg.col, row |-> arg.row]

\* a row of two digits has made the round trip
C22_Witness ==
    /\ pc = "ref_parsed"
    /\ arg.row >= 10
    /\ arg.col = "Z"
    /\ ret = [col |-> "Z", row |-> arg.row]

\* the cells of the sheet of the name given
CellsOfSheet(name) == grid[CHOOSE k \in 1..Len(grid) : grid[k].name = name].cells

\* the header rows of a sheet: the rows its descriptors were found on
AnchorRows(data) ==
    LET sections == find_timesheet_headers(data)
    IN  {sections[k].start_row - 1 : k \in 1..Len(sections)}

\* no header row is among the events
NoAnchorEmitted ==
    \A i \in 1..Len(all_events) :
        all_events[i].Row \notin AnchorRows(CellsOfSheet(all_events[i].Sheet))

\* no row of a sheet is among the events twice
NoRowTwice ==
    \A i, j \in 1..Len(all_events) :
        (i # j /\ all_events[i].Sheet = all_events[j].Sheet)
            => all_events[i].Row # all_events[j].Row

\* C23: the sections of one sheet never overlap: no header row is emitted as
\* an event and no row is emitted by more than one section, also when a
\* second header row directly follows the last event row of a section.
C23_NoOverlap == NoAnchorEmitted /\ NoRowTwice

\* the row of the notes table header of a sheet, 0 if there is none
StartRowOf(data) ==
    LET table == find_notes_structure(data)
    IN  IF table = NoneV \/ table.start_row = NoneV THEN 0 ELSE table.start_row.n

\* the cell i of the sheet lies in one of the columns given and in one of the
\* n rows that follow the table header
InWindow(data, i, columns, n) ==
    /\ StartRowOf(data) # 0
    /\ KeepAlpha(data[i].ref) \in columns
    /\ KeepDigits(data[i].ref) # ""
    /\ ParseInt(KeepDigits(data[i].ref)) \in (StartRowOf(data) + 1)..(StartRowOf(data) + n)

ColumnsGToP == {"G", "H", "I", "J", "K", "L", "M", "N", "O", "P"}
ColumnsAToJ == {"A", "B", "C", "D", "E", "F", "G", "H", "I", "J"}

\* the texts found one row below a cell of the window that holds the label
ValuesBelowLabel(data, name) ==
    {Strip(PyStr(Get(data, CellRef(KeepAlpha(data[i].ref),
                                   ParseInt(KeepDigits(data[i].ref)) + 1)))) :
        i \in {j \in 1..Len(data) :
                 /\ InWindow(data, j, ColumnsGToP, 15)
                 /\ Contains(PyStr(data[j].val), name)
                 /\ Has(data, CellRef(KeepAlpha(data[j].ref),
                                      ParseInt(KeepDigits(data[j].ref)) + 1))}}

\* C24: extract_pumping_data recognises a pumping label exactly when it lies
\* in a column G..P of one of the 15 rows that follow start_row, and takes the
\* value from the cell one row below the label; a label outside that window
\* fills no field.
C24_PumpingWindow ==
    pc = "pumping" =>
        /\ ("last_cargo" \in DOMAIN ret) = (ValuesBelowLabel(arg, "Last Cargo") # {})
        /\ "last_cargo" \in DOMAIN ret =>
              ret["last_cargo"].s \in ValuesBelowLabel(arg, "Last Cargo")
        /\ ("pumping_time" \in DOMAIN ret) = (ValuesBelowLabel(arg, "Pumping Time") # {})

\* a cell of the window A..J of the 10 rows after start_row holds the word
\* and an X
MarkedInWindow(data, word) ==
    \E i \in 1..Len(data) :
        /\ InWindow(data, i, ColumnsAToJ, 10)
        /\ Contains(PyStr(data[i].val), word)
        /\ Contains(PyStr(data[i].val), "X")

Recorded(list, word) == \E k \in 1..Len(list) : list[k] = word

\* C25: extract_weather_conditions records a weather or sea condition exactly
\* when a cell in the columns A..J of the 10 rows that follow start_row holds
\* the condition word and an X; without a notes structure both lists are empty.
C25_WeatherWindow ==
    pc = "weather" =>
        /\ Recorded(ret.weather_conditions, "rain") = MarkedInWindow(arg, "Rain")
        /\ Recorded(ret.sea_conditions, "calm") = MarkedInWindow(arg, "Calm")
        /\ StartRowOf(arg) = 0 =>
              ret.weather_conditions = <<>> /\ ret.sea_conditions = <<>>

\* the category the analyzer has put the one event of the list into
AnalyzerCategory == categories[1].category

\* C26: for every category and every keyword of its list, an event whose text
\* is that keyword is classified into that category; no keyword is shadowed
\* by a keyword of a category of higher priority that occurs inside it.
C26_NoDeadKeywords ==
    (pc \in {"analysis", "summary"} /\ Len(arg) = 1) =>
        \A i \in 1..Len(Patterns) :
            \A k \in 1..Len(Patterns[i].keywords) :
                arg[1].Event = Patterns[i].keywords[k]
                    => AnalyzerCategory = Patterns[i].category

\* how many events the analyzer has put into the category
AnalyzerCount(c) ==
    IF \E k \in 1..Len(categories) : categories[k].category = c
    THEN Len(categories[CHOOSE k \in 1..Len(categories) : categories[k].category = c].events)
    ELSE 0

\* how many events the summary counts under the category
SummaryCount(c) ==
    IF c \in DOMAIN ret.event_types THEN ret.event_types[c] ELSE 0

TenLabels == {CategoryNames[c] : c \in 1..Len(CategoryNames)}

\* C27: the analyzer and the assistant's data summary put every event under
\* the same category, both use labels of the ten-label vocabulary only, and
\* their counts per category agree for any event list.
C27_OneClassifier ==
    pc = "summary" =>
        /\ DOMAIN ret.event_types \subseteq TenLabels
        /\ \A k \in 1..Len(categories) : categories[k].category \in TenLabels
        /\ \A c \in TenLabels : AnalyzerCount(c) = SummaryCount(c)

\* the steps of upload_file, in order
Steps ==
    <<"save", "load_workbook", "open_cellmap", "dump_cellmap", "header", "events",
      "notes", "unlink", "done">>

StepIndex(step) == CHOOSE k \in 1..Len(Steps) : Steps[k] = step

\* the request has gone through the step without the outer except
Past(r, step) ==
    /\ StepIndex(requests[r].pc) > StepIndex(step)
    /\ requests[r].pc = "done" => requests[r].response = "success"

\* C28: for any interleaving of two upload requests, also of files whose
\* names have the same stem, the header and the notes of an upload are
\* extracted from the grid its events are extracted from, the grid built from
\* the upload's own file.
C28_DocumentIsolation ==
    \A r \in 1..Len(requests) :
        /\ Past(r, "load_workbook") => requests[r].cellmap = requests[r].file
        /\ Past(r, "header") =>
              requests[r].header_data \in HeaderOf(requests[r].file)
        /\ Past(r, "events") => requests[r].events = EventsOf(requests[r].file)
        /\ Past(r, "notes") => requests[r].notes_data = NotesOf(requests[r].file)

\* C29: after any sequence of load_data_context, chat (answered or raising)
\* and clear_conversation, conversation_history alternates user, assistant,
\* ... and has even length, so that every question is followed by its answer.
C29_HistoryWellFormed ==
    /\ Len(conversation_history) % 2 = 0
    /\ \A k \in 1..Len(conversation_history) :
          conversation_history[k].role = IF k % 2 = 1 THEN "user" ELSE "assistant"

\* a call of chat, whatever its outcome
ChatCall ==
    \E question \in Questions :
        \/ ChatWithoutData(question)
        \/ ChatBuildRaises(question)
        \/ ChatModelRaises(question)
        \/ \E answer \in Answers : ChatAnswers(question, answer)

\* the summary of each document that can be loaded
SummaryOf ==
    [d \in Loads |-> DataSummary(d.events, d.cellmap, d.header_data, d.notes_data)]

\* the context holds the arguments d
Holds(context, d) ==
    /\ context.events = d.events
    /\ context.cellmap = d.cellmap
    /\ context.header_data = d.header_data
    /\ context.notes_data = d.notes_data
    /\ context.filename = d.filename

\* everything the assistant holds is of the document loaded last
OfTheLoadedDocument ==
    /\ current_data_context = NoneV => conversation_history = <<>>
    /\ current_data_context # NoneV =>
          /\ \E d \in Loads :
                /\ Holds(current_data_context, d)
                /\ data_summary = SummaryOf[d]
                /\ current_filename = StrV(d.filename)
          /\ \A k \in 1..Len(conversation_history) :
                conversation_history[k].timestamp > current_data_context.loaded_at

\* a chat before any load answers with an error and changes nothing
ChatBeforeLoad ==
    (current_data_context = NoneV /\ ChatCall) =>
        /\ ret'.success = FALSE
        /\ UNCHANGED <<conversation_history, current_data_context>>

\* a load replaces the whole context and empties the history
LoadReplaces ==
    \A d \in Loads :
        LoadDataContext(d) =>
            /\ Holds(current_data_context', d)
            /\ data_summary' = SummaryOf[d]
            /\ current_filename' = StrV(d.filename)
            /\ conversation_history' = <<>>

\* the messages sent to the model are written from the loaded document and
\* from questions and answers given since it was loaded
SentFromLoaded ==
    messages' # messages =>
        /\ \E d \in Loads :
              /\ Holds(current_data_context', d)
              /\ messages'[1].content =
                    create_system_prompt(SummaryOf[d], StrV(d.filename))
        /\ messages'[Len(messages')].content.enhanced.question \in Questions
        /\ \/ messages'[Len(messages')].content.detailed = <<>>
           \/ /\ ~SortRaises(DateTimeKeys(current_data_context'.events))
              /\ messages'[Len(messages')].content.detailed
                    = sorted_events(current_data_context'.events)
        /\ \A k \in 2..(Len(messages') - 1) :
              \E j \in 1..Len(conversation_history') :
                  /\ conversation_history'[j].timestamp > current_data_context'.loaded_at
                  /\ conversation_history'[j].role = messages'[k].role
                  /\ conversation_history'[j].content = messages'[k].content

\* C30: a chat call made before any load_data_context returns an error result
\* and leaves the history and the data context unchanged; every
\* load_data_context replaces the whole data context (events, grid, header,
\* notes, summary, filename) and empties the history, so that no question,
\* answer or data of a document loaded before is used after a new load.
C30_ContextSwitching ==
    /\ []OfTheLoadedDocument
    /\ [][ChatBeforeLoad /\ LoadReplaces /\ SentFromLoaded]_vars

\* another document is loaded after the first, and a question about it is
\* answered
C30_Witness ==
    /\ current_data_context # NoneV
    /\ current_data_context.loaded_at >= 2
    /\ current_data_context.filename = "other"
    /\ Len(conversation_history) = 2
    /\ conversation_history[2].role = "assistant"
    /\ Len(messages) = 2

====
